---- MODULE Spec2Model ----
(***************************************************************************)
(* Verification model of the referee.fyi incident synchronisation core:   *)
(* the per-field last-writer-wins envelope (lib/consistency/lww), the      *)
(* grow-only tombstone set (lib/consistency/gset), the consistent map      *)
(* (lib/consistency/map), the client share connection and its join         *)
(* reconcile (ShareConnection), and the per-event server object            *)
(* (worker/sync EventIncidents) with its socket sessions and its HTTP      *)
(* mutation endpoints.                                                     *)
(***************************************************************************)
EXTENDS Integers, Sequences, FiniteSets, TLC

(***************************************************************************)
(* Bounds of the model.                                                    *)
(***************************************************************************)
\* total number of add / edit / delete / reconcile operations in a run
MaxOps == 3

(***************************************************************************)
(* Domains.                                                                *)
(***************************************************************************)
\* incident ids ("incident_<uuid>")
Ids == {"i1", "i2"}
\* the keys of a record (type BaseIncident)
RecordKeys == {"id", "event", "team", "note", "rule"}
\* the keys that never take part in a merge (const ignore = [...])
Ignore == {"id", "event", "team"}
\* the keys of a record that carry a consistency entry
Keys == RecordKeys \ Ignore
\* field values; "v0" is the value every new incident starts with
Vals == {"v0", "v1", "v2"}
\* peer ids are strings; a string is modelled as the sequence of its
\* character codes, so that the comparison of two ids is the lexicographic
\* one:  <<1>> = "A",  <<1, 2>> = "AB",  <<2>> = "B"
PeerA == <<1>>
PeerAB == <<1, 2>>
PeerB == <<2>>
\* the replicas of the map: three devices, each signing with its own key
Replicas == {"a", "b", "c"}
PeerOf == [a |-> PeerA, b |-> PeerAB, c |-> PeerB]
Sku == "RE-VRC-23-3690"

\* null / undefined operand of mergeLWW
Null == [null |-> TRUE]

\* the clients of the share server (the devices of three referees)
Clients == {"P", "Q", "R"}
ClientPeer == [P |-> PeerA, Q |-> PeerB, R |-> PeerAB]

VARIABLES
  reps,   \* reps[r]: the consistent map {values, deleted} held by replica r
  last,   \* the last call observed: a mergeMap or mergeLWW with its operands and
          \* result, or an HTTP request with its response
  ops,    \* number of operations (or HTTP requests) performed so far
  srv,    \* server storage: records by id, the "incidents" list, "deleted_incidents",
          \* and the session list (this.clients)
  cl,     \* cl[c]: client c's local store (records by id, the event index, the
          \* deleted index) and its connection's readyState
  toSrv,  \* toSrv[c]: frames client c has sent on its socket, not yet handled
  toCl,   \* toCl[c]: frames the server has sent to client c, not yet handled
  hist,   \* the mutations made offline: their number and the edits
  conn,   \* one client's ShareConnection store (readyState, websocket, invitation,
          \* reconnectTimer), the WebSocket objects it has created, the pending
          \* timers and the connect calls that are past their disconnect
  sess,   \* the server's sessions: this.clients, the user and the flags of
          \* every session, the handlers suspended at an await, the frames
          \* sent by the last step
  loc,    \* one device's store while it makes a mutation: the local records
          \* and scratchpads, the step the mutation is at and what has been
          \* emitted to the server
  rx      \* one client while it receives on one socket: its local store, the
          \* number of frames that have arrived, the handleWebsocketMessage
          \* calls that are suspended at an await, and the frames it has sent

mergeVars == <<reps, last, ops>>
syncVars == <<srv, cl, toSrv, toCl, hist>>
liveVars == <<conn, sess, loc, rx>>
vars == <<reps, last, ops, srv, cl, toSrv, toCl, hist, conn, sess, loc, rx>>

(***************************************************************************)
(* lib/consistency/lww: per-field last-writer-wins envelope.               *)
(***************************************************************************)
\* string comparison a < b (code unit by code unit, a proper prefix is smaller)
RECURSIVE LexLess(_, _)
LexLess(p, q) ==
  IF p = <<>> THEN q # <<>>
  ELSE IF q = <<>> THEN FALSE
  ELSE IF Head(p) # Head(q) THEN Head(p) < Head(q)
  ELSE LexLess(Tail(p), Tail(q))

\* initLWW({value, peer, ignore}): count 0 and empty history for every key
\* that is not ignored
initLWW(value, peer) ==
  [id |-> value.id, event |-> value.event, team |-> value.team,
   note |-> value.note, rule |-> value.rule,
   consistency |-> [k \in Keys |-> [count |-> 0, peer |-> peer, history |-> <<>>]]]

\* a faulty update: the key keeps the peer id of its previous writer
updateLWWKeepsPeer(env, key, value, peer) ==
  IF env[key] = value THEN env
  ELSE LET old == env.consistency[key]
           meta == [count |-> old.count + 1,
                    peer |-> old.peer,
                    history |-> Append(old.history, [prev |-> env[key], peer |-> old.peer])]
       IN [[env EXCEPT ![key] = value] EXCEPT !.consistency[key] = meta]

\* a faulty update: the count of every key is increased, not only the edited one
updateLWWCountsAll(env, key, value, peer) ==
  IF env[key] = value THEN env
  ELSE LET old == env.consistency[key]
           meta == [count |-> old.count + 1,
                    peer |-> peer,
                    history |-> Append(old.history, [prev |-> env[key], peer |-> old.peer])]
       IN [[env EXCEPT ![key] = value] EXCEPT
             !.consistency = [k \in Keys |->
                                IF k = key THEN meta
                                ELSE [env.consistency[k] EXCEPT !.count = @ + 1]]]

\* updateLWW(env, {key, value, peer})
updateLWW(env, key, value, peer) ==
  IF env[key] = value THEN env
  ELSE LET old == env.consistency[key]
           meta == [count |-> old.count + 1,
                    peer |-> peer,
                    history |-> Append(old.history, [prev |-> env[key], peer |-> old.peer])]
       IN [[env EXCEPT ![key] = value] EXCEPT !.consistency[key] = meta]

\* a faulty winner rule: the peer ids are compared before the counts
LWWWinnerPeerFirst(local, remote, k) ==
  LET lp == local.consistency[k].peer
      rp == remote.consistency[k].peer
  IN IF LexLess(lp, rp) THEN "remote"
     ELSE IF LexLess(rp, lp) THEN "local"
     ELSE IF local.consistency[k].count < remote.consistency[k].count THEN "remote"
     ELSE "local"

\* a faulty winner rule: a tie on the count is always kept local
LWWWinnerTieLocal(local, remote, k) ==
  IF local.consistency[k].count < remote.consistency[k].count THEN "remote" ELSE "local"

\* a faulty winner rule: remote always wins
LWWWinnerRemote(local, remote, k) == "remote"

\* which side supplies key k: "local" or "remote". With equal counts, values
\* that differ and the same last writer on both sides no id is the larger
\* one; local is kept then.
LWWWinner(local, remote, k) ==
  LET lc == local.consistency[k].count
      rc == remote.consistency[k].count
  IN IF lc > rc THEN "local"
     ELSE IF lc < rc THEN "remote"
     ELSE IF local[k] = remote[k] THEN "local"
     ELSE IF LexLess(local.consistency[k].peer, remote.consistency[k].peer) THEN "remote"
     ELSE "local"

\* is key k reported in `rejected` (local kept its value against remote's)
LWWRejected(local, remote, k) ==
  LET lc == local.consistency[k].count
      rc == remote.consistency[k].count
  IN \/ lc > rc
     \/ /\ lc = rc
        /\ local[k] # remote[k]
        /\ LexLess(remote.consistency[k].peer, local.consistency[k].peer)

\* mergeLWW of two envelopes, neither of them null: the per-key loop
mergeLWWBoth(local, remote) ==
  LET win == [k \in Keys |-> LWWWinner(local, remote, k)]
      side(k) == IF win[k] = "remote" THEN remote ELSE local
  IN [resolved |->
        [id |-> local.id, event |-> local.event, team |-> local.team,
         note |-> side("note").note, rule |-> side("rule").rule,
         consistency |-> [k \in Keys |-> side(k).consistency[k]]],
      changed |-> {k \in Keys : win[k] = "remote"},
      rejected |-> {k \in Keys : LWWRejected(local, remote, k)}]

\* a faulty mergeLWW: a null local reports no changed key
mergeLWWNullUnchanged(local, remote) ==
  IF local = Null \/ remote = Null
    THEN [resolved |-> IF local = Null THEN remote ELSE local,
          changed |-> {}, rejected |-> {}]
  ELSE mergeLWWBoth(local, remote)

\* mergeLWW({local, remote, ignore}) -> {resolved, changed, rejected}
mergeLWW(local, remote) ==
  IF local = Null /\ remote = Null
    THEN [resolved |-> Null, changed |-> {}, rejected |-> {}]
  ELSE IF remote = Null
    THEN [resolved |-> local, changed |-> {}, rejected |-> {}]
  ELSE IF local = Null
    THEN [resolved |-> remote, changed |-> Keys, rejected |-> {}]
  ELSE mergeLWWBoth(local, remote)

(***************************************************************************)
(* lib/consistency/gset: grow-only set.                                    *)
(***************************************************************************)
\* mergeGrowSet({local, remote}) -> {resolved, localOnly, remoteOnly}
mergeGrowSet(local, remote) ==
  [resolved |-> local \cup remote,
   localOnly |-> local \ remote,
   remoteOnly |-> remote \ local]

(***************************************************************************)
(* lib/consistency/map: consistent map.                                    *)
(***************************************************************************)
\* a map and b map with disjoint domains, merged ({...a, ...b})
Spread(a, b) ==
  [id \in DOMAIN a \cup DOMAIN b |-> IF id \in DOMAIN b THEN b[id] ELSE a[id]]

EmptyValues == [id \in {} |-> Null]
EmptyMap == [values |-> EmptyValues, deleted |-> {}]

\* the partition of the ids of the two maps
localOnlyIds(local, remote) == DOMAIN local.values \ DOMAIN remote.values
remoteOnlyIds(local, remote) == DOMAIN remote.values \ DOMAIN local.values
sharedIds(local, remote) == DOMAIN local.values \cap DOMAIN remote.values

\* the mergeLWW result of every shared id
mergeResults(local, remote) ==
  [id \in sharedIds(local, remote) |-> mergeLWW(local.values[id], remote.values[id])]

\* a faulty notifyRemote: the results with a changed key instead of a rejected one
notifyRemoteFromChanged(local, remote) ==
  {id \in sharedIds(local, remote) : mergeResults(local, remote)[id].changed # {}}

\* results where remote is rejected for being outdated
notifyRemote(local, remote) ==
  {id \in sharedIds(local, remote) : mergeResults(local, remote)[id].rejected # {}}

\* values that have to be updated locally
updateLocal(local, remote) ==
  {id \in sharedIds(local, remote) : mergeResults(local, remote)[id].changed # {}}

localOnlyValues(local, remote) ==
  [id \in localOnlyIds(local, remote) |-> local.values[id]]

remoteOnlyValues(local, remote) ==
  [id \in remoteOnlyIds(local, remote) |-> remote.values[id]]

\* a faulty build of the shared values: local's envelope instead of the merged one
sharedValuesFromLocal(local, remote) ==
  [id \in sharedIds(local, remote) |-> local.values[id]]

sharedValues(local, remote) ==
  [id \in sharedIds(local, remote) |-> mergeResults(local, remote)[id].resolved]

\* a faulty mergeMap: the resolved values leave out the shared ids
mergeMapWithoutShared(local, remote) ==
  LET deleted == mergeGrowSet(local.deleted, remote.deleted)
  IN [resolved |-> [deleted |-> deleted.resolved,
                    values |-> Spread(localOnlyValues(local, remote),
                                      remoteOnlyValues(local, remote))],
      local |-> [values |-> remoteOnlyIds(local, remote) \cup updateLocal(local, remote),
                 deleted |-> deleted.remoteOnly],
      remote |-> [values |-> localOnlyIds(local, remote) \cup notifyRemote(local, remote),
                  deleted |-> deleted.localOnly]]

\* a faulty mergeMap: the two tombstone push lists are exchanged
mergeMapDeletedSwapped(local, remote) ==
  LET deleted == mergeGrowSet(local.deleted, remote.deleted)
  IN [resolved |-> [deleted |-> deleted.resolved,
                    values |-> Spread(Spread(localOnlyValues(local, remote),
                                             remoteOnlyValues(local, remote)),
                                      sharedValues(local, remote))],
      local |-> [values |-> remoteOnlyIds(local, remote) \cup updateLocal(local, remote),
                 deleted |-> deleted.localOnly],
      remote |-> [values |-> localOnlyIds(local, remote) \cup notifyRemote(local, remote),
                  deleted |-> deleted.remoteOnly]]

\* mergeMap({local, remote, ignore}) -> ConsistentMapMergeResult
mergeMap(local, remote) ==
  LET deleted == mergeGrowSet(local.deleted, remote.deleted)
  IN [resolved |-> [deleted |-> deleted.resolved,
                    values |-> Spread(Spread(localOnlyValues(local, remote),
                                             remoteOnlyValues(local, remote)),
                                      sharedValues(local, remote))],
      local |-> [values |-> remoteOnlyIds(local, remote) \cup updateLocal(local, remote),
                 deleted |-> deleted.remoteOnly],
      remote |-> [values |-> localOnlyIds(local, remote) \cup notifyRemote(local, remote),
                  deleted |-> deleted.localOnly]]

(***************************************************************************)
(* Operations on a replica's map.                                          *)
(***************************************************************************)
\* a new incident as the UI creates it
NewIncident(id) ==
  [id |-> id, event |-> Sku, team |-> "3796B", note |-> "v0", rule |-> "v0"]

\* store the resolved envelope of every id in ids
Upsert(map, resolved, ids) ==
  [map EXCEPT !.values = Spread(map.values, [id \in ids |-> resolved.values[id]])]

\* delete every id in ids and remember it as deleted
Tombstone(map, ids) ==
  [values |-> [id \in DOMAIN map.values \ ids |-> map.values[id]],
   deleted |-> map.deleted \cup ids]

\* apply one side's output of a merge: upserts first, then deletions
ApplyMerge(map, resolved, out) ==
  Tombstone(Upsert(map, resolved, out.values), out.deleted)

\* an id is in deleted only if it is not in values
Consistent(map) == DOMAIN map.values \cap map.deleted = {}

NoLast == [kind |-> "none"]

\* the map every device and the server hold at the start: incident i1,
\* recorded by peer "B" and since shared
StartValues == [id \in {"i1"} |-> initLWW(NewIncident("i1"), PeerB)]

\* no invitation (invitation: null)
NoInvitation == ""

\* the ShareConnection store as created (readyState CLOSED, websocket null,
\* invitation null, reconnectTimer null); no socket, timer or connect call
\* exists yet.  Sockets and timers are numbered from 1; 0 stands for null.
\* held is the invitation of the event the user is sharing; op is the last
\* incident mutation given to the store: whether the socket was not open
\* when it was made, and the path it took
ConnStart ==
  [store |-> [readyState |-> "Closed", websocket |-> 0,
              invitation |-> NoInvitation, reconnectTimer |-> 0],
   socks |-> <<>>, timers |-> {}, pending |-> <<>>, user |-> 0,
   held |-> NoInvitation, op |-> [path |-> "none", offline |-> FALSE]]

\* the server object as constructed: this.clients = [] and no socket accepted.
\* user[s] is the user of session s; inactive, broken, registered and closed
\* are the sessions with active = false, whose socket.send throws, whose quit
\* handler is set, and whose close event has been dispatched; tasks are the
\* handlers suspended at an await; sent are the frames sent by the last step;
\* depth is the deepest nesting of broadcast calls so far; snap is the
\* snapshot sent by the last step: the session it went to, how recent its
\* data is, and how recent the last incident frame sent to that session
\* before it was
NoSnap == [to |-> 0, ver |-> 0, early |-> 0]
SessStart ==
  [clients |-> <<>>, user |-> <<>>, inactive |-> {}, broken |-> {},
   registered |-> {}, closed |-> {}, tasks |-> {}, sent |-> {}, depth |-> 0,
   ver |-> 0, early |-> {}, snap |-> NoSnap]

\* an incident in the device's store; count 0 stands for an incident that has
\* no revision yet (revision ?? {count: 0})
LocalIncident(id, note, count) ==
  [id |-> id, event |-> Sku, team |-> "3796B", note |-> note, rule |-> "v0",
   revision |-> [count |-> count]]

\* a match scratchpad: its text and its revision count
Scratchpad(text, count) == [text |-> text, count |-> count]

\* no mutation is running
NoRun == [op |-> "none", n |-> 0, id |-> "", value |-> Null, pc |-> "",
          sent |-> FALSE, written |-> FALSE]
\* nothing has been emitted
NoEmit == [n |-> 0, op |-> "none", id |-> "", value |-> Null, outcome |-> "none"]

\* a device that holds incident i1 and the scratchpad of match m1; socket is
\* what get().websocket is: "none" (null), "open", or "broken" (send throws);
\* run is the mutation being made, emit the last emission to the server, n
\* the number of mutations started
LocStart ==
  [store |-> [records |-> [id \in {"i1"} |-> LocalIncident("i1", "v0", 0)],
              index |-> {"i1"}, deleted |-> {}],
   pads |-> [m \in {"m1"} |-> Scratchpad("p0", 0)],
   socket |-> "none", run |-> NoRun, emit |-> NoEmit, n |-> 0]

\* a client whose socket has just opened: the local store lists the event's
\* incident, no frame has arrived, no handler runs and nothing has been sent
RxStart ==
  [store |-> [records |-> StartValues, index |-> {"i1"}, deleted |-> {},
              readyState |-> "Open", synced |-> FALSE],
   arrived |-> 0, running |-> {}, out |-> <<>>]

LiveStart ==
  /\ conn = ConnStart
  /\ sess = SessStart
  /\ loc = LocStart
  /\ rx = RxStart

SyncStart ==
  /\ LiveStart
  /\ srv = [records |-> StartValues, list |-> {"i1"}, deleted |-> {}, clients |-> {}]
  /\ cl = [c \in Clients |->
             [records |-> StartValues, index |-> {"i1"}, deleted |-> {},
              readyState |-> "Closed", synced |-> FALSE]]
  /\ toSrv = [c \in Clients |-> <<>>]
  /\ toCl = [c \in Clients |-> <<>>]
  /\ hist = [n |-> 0, edits |-> {}]

MergeInit ==
  /\ SyncStart
  /\ reps = [r \in Replicas |->
               [values |-> StartValues, deleted |-> {}]]
  /\ last = NoLast
  /\ ops = 0

\* replica r records a new incident
Add(r, id) ==
  /\ ops < MaxOps
  /\ \A s \in Replicas : id \notin DOMAIN reps[s].values /\ id \notin reps[s].deleted
  /\ reps' = [reps EXCEPT ![r].values =
                Spread(@, [i \in {id} |-> initLWW(NewIncident(id), PeerOf[r])])]
  /\ ops' = ops + 1
  /\ UNCHANGED <<last, syncVars, liveVars>>

\* replica r edits one field of an incident it holds
Edit(r, id, k, v) ==
  /\ ops < MaxOps
  /\ id \in DOMAIN reps[r].values
  /\ reps[r].values[id][k] # v
  /\ reps' = [reps EXCEPT ![r].values[id] = updateLWW(@, k, v, PeerOf[r])]
  /\ ops' = ops + 1
  /\ UNCHANGED <<last, syncVars, liveVars>>

\* replica r deletes an incident it holds
Delete(r, id) ==
  /\ ops < MaxOps
  /\ id \in DOMAIN reps[r].values
  /\ reps' = [reps EXCEPT ![r] = Tombstone(@, {id})]
  /\ ops' = ops + 1
  /\ UNCHANGED <<last, syncVars, liveVars>>

\* replica r (local) reconciles with replica s (remote): one mergeMap, whose
\* local output r applies and whose remote output s applies
Reconcile(r, s) ==
  /\ ops < MaxOps
  /\ r # s
  /\ LET res == mergeMap(reps[r], reps[s])
     IN /\ reps' = [reps EXCEPT ![r] = ApplyMerge(@, res.resolved, res.local),
                                ![s] = ApplyMerge(@, res.resolved, res.remote)]
        /\ last' = [kind |-> "mergeMap", local |-> reps[r], remote |-> reps[s],
                    result |-> res]
  /\ ops' = ops + 1
  /\ UNCHANGED <<syncVars, liveVars>>

\* the envelope a map holds for an id, null if it holds none
EnvelopeOf(map, id) == IF id \in DOMAIN map.values THEN map.values[id] ELSE Null

\* one mergeLWW of the envelopes two replicas hold for an id, either of which
\* may be missing (null); the result is looked at, not stored
MergeEnvelope(r, s, id) ==
  /\ ops < MaxOps
  /\ LET local == EnvelopeOf(reps[r], id)
         remote == EnvelopeOf(reps[s], id)
     IN last' = [kind |-> "mergeLWW", local |-> local, remote |-> remote,
                 result |-> mergeLWW(local, remote)]
  /\ ops' = ops + 1
  /\ UNCHANGED <<reps, syncVars, liveVars>>

MergeNext ==
  \/ \E r \in Replicas, id \in Ids : Add(r, id)
  \/ \E r \in Replicas, id \in Ids, k \in Keys, v \in Vals : Edit(r, id, k, v)
  \/ \E r \in Replicas, id \in Ids : Delete(r, id)
  \/ \E r, s \in Replicas : Reconcile(r, s)
  \/ \E r, s \in Replicas, id \in Ids : MergeEnvelope(r, s, id)

SpecMerge == MergeInit /\ [][MergeNext]_vars

(***************************************************************************)
(* The share session: the clients and the server object of one event.     *)
(***************************************************************************)
\* total number of mutations the clients make while offline
MaxOffline == 2

\* the elements of a set in a fixed order
RECURSIVE SetToSeq(_)
SetToSeq(S) ==
  IF S = {} THEN <<>>
  ELSE LET x == CHOOSE y \in S : TRUE IN <<x>> \o SetToSeq(S \ {x})

\* ---- client store (utils/data/incident) ----
\* the incidents of the event the client lists, as a consistent map
\* (getIncidentsByEvent, getDeletedIncidentsForEvent)
LocalMap(store) ==
  [values |-> [id \in store.index |-> store.records[id]], deleted |-> store.deleted]

\* hasIncident(id): is a record stored under the id
hasIncident(store, id) == id \in DOMAIN store.records

\* setIncident(id, incident): writes the record, not the index
setIncident(store, id, incident) ==
  [store EXCEPT !.records = Spread(@, [i \in {id} |-> incident])]

\* newIncident / addIncident: writes the record and lists it in the event index
storeIncident(store, id, incident) ==
  [setIncident(store, id, incident) EXCEPT !.index = @ \cup {id}]

\* deleteIncident(id): moves the id from the event index to the deleted index;
\* the record stays in the store
deleteIncident(store, id) ==
  IF ~hasIncident(store, id) THEN store
  ELSE [store EXCEPT !.index = @ \ {id}, !.deleted = @ \cup {id}]

RECURSIVE addManyIncidents(_, _, _)
addManyIncidents(store, resolved, ids) ==
  IF ids = {} THEN store
  ELSE LET id == CHOOSE i \in ids : TRUE
       IN addManyIncidents(storeIncident(store, id, resolved.values[id]), resolved, ids \ {id})

RECURSIVE setManyIncidents(_, _, _)
setManyIncidents(store, resolved, ids) ==
  IF ids = {} THEN store
  ELSE LET id == CHOOSE i \in ids : TRUE
       IN setManyIncidents(setIncident(store, id, resolved.values[id]), resolved, ids \ {id})

RECURSIVE deleteManyIncidents(_, _)
deleteManyIncidents(store, ids) ==
  IF ids = {} THEN store
  ELSE LET id == CHOOSE i \in ids : TRUE
       IN deleteManyIncidents(deleteIncident(store, id), ids \ {id})

\* ---- server storage (EventIncidents) ----
\* addIncident(incident): put the record, list the id unless listed
srvAddIncident(st, incident) ==
  [st EXCEPT !.records = Spread(@, [i \in {incident.id} |-> incident]),
             !.list = @ \cup {incident.id}]

\* editIncident(incident): put the record if one is stored under the id
srvEditIncident(st, incident) ==
  IF incident.id \notin DOMAIN st.records THEN st
  ELSE [st EXCEPT !.records = Spread(@, [i \in {incident.id} |-> incident])]

\* a faulty deleteIncident: an id that is not listed gets no tombstone
srvDeleteIncidentListedOnly(st, id) ==
  IF id \notin st.list THEN st
  ELSE [st EXCEPT !.list = @ \ {id}, !.deleted = @ \cup {id}]

\* deleteIncident(id): unlist the id and add it to deleted_incidents
srvDeleteIncident(st, id) ==
  [st EXCEPT !.list = @ \ {id}, !.deleted = @ \cup {id}]

\* getData(): the listed incidents and the deleted ids
getData(st) ==
  [values |-> [id \in st.list |-> st.records[id]], deleted |-> st.deleted]

\* broadcast(message): the frame is sent to every session
broadcast(queues, sessions, frame) ==
  [c \in Clients |-> IF c \in sessions THEN Append(queues[c], frame) ELSE queues[c]]

\* ---- the split of a merge's value lists into create and update ----
CreateIds(ids, other) == ids \ DOMAIN other.values
UpdateIds(ids, other) == ids \cap DOMAIN other.values

\* the frames the join reconcile sends: add_incident for the ids the server
\* lacks, update_incident for the others, then remove_incident
ReconcileFrames(res, remote) ==
  LET adds == SetToSeq(CreateIds(res.remote.values, remote))
      upds == SetToSeq(UpdateIds(res.remote.values, remote))
      dels == SetToSeq(res.remote.deleted)
  IN [n \in 1..Len(adds) |-> [type |-> "add_incident", incident |-> res.resolved.values[adds[n]]]]
     \o [n \in 1..Len(upds) |-> [type |-> "update_incident", incident |-> res.resolved.values[upds[n]]]]
     \o [n \in 1..Len(dels) |-> [type |-> "remove_incident", id |-> dels[n]]]

\* the local half of the join reconcile
ReconcileLocal(store, res) ==
  LET local == LocalMap(store)
      s1 == addManyIncidents(store, res.resolved, CreateIds(res.local.values, local))
      s2 == setManyIncidents(s1, res.resolved, UpdateIds(res.local.values, local))
  IN deleteManyIncidents(s2, res.local.deleted)

Offline(c) == cl[c].readyState = "Closed" /\ ~cl[c].synced

\* a client without connection records a new incident
OfflineAdd(c, id) ==
  /\ Offline(c) /\ hist.n < MaxOffline
  /\ id \notin DOMAIN srv.records
  /\ \A d \in Clients : ~hasIncident(cl[d], id)
  /\ cl' = [cl EXCEPT ![c] = storeIncident(@, id, initLWW(NewIncident(id), ClientPeer[c]))]
  /\ hist' = [hist EXCEPT !.n = @ + 1]
  /\ UNCHANGED <<srv, toSrv, toCl, mergeVars, liveVars>>

\* a client without connection edits a field of an incident it lists
OfflineEdit(c, id, k, v) ==
  /\ Offline(c) /\ hist.n < MaxOffline
  /\ id \in cl[c].index
  /\ cl[c].records[id][k] # v
  /\ cl' = [cl EXCEPT ![c] =
              setIncident(@, id, updateLWW(cl[c].records[id], k, v, ClientPeer[c]))]
  /\ hist' = [n |-> hist.n + 1, edits |-> hist.edits \cup {<<c, id, k, v>>}]
  /\ UNCHANGED <<srv, toSrv, toCl, mergeVars, liveVars>>

\* a client without connection deletes an incident it lists
OfflineDelete(c, id) ==
  /\ Offline(c) /\ hist.n < MaxOffline
  /\ id \in cl[c].index
  /\ cl' = [cl EXCEPT ![c] = deleteIncident(@, id)]
  /\ hist' = [hist EXCEPT !.n = @ + 1]
  /\ UNCHANGED <<srv, toSrv, toCl, mergeVars, liveVars>>

\* connect(invitation) and the server's handleSession: the socket opens, the
\* server replaces any session of the same user by the new one and sends it
\* the server_share_info snapshot (the user-list frames change no incident
\* state and are left out)
Join(c) ==
  /\ cl[c].readyState = "Closed"
  /\ cl' = [cl EXCEPT ![c].readyState = "Open"]
  /\ srv' = [srv EXCEPT !.clients = (@ \ {c}) \cup {c}]
  /\ toCl' = [toCl EXCEPT ![c] =
                Append(@, [type |-> "server_share_info", incidents |-> getData(srv)])]
  /\ UNCHANGED <<toSrv, hist, mergeVars, liveVars>>

\* handleWebsocketMessage, case server_share_info: the join reconcile
RecvShareInfo(c) ==
  /\ toCl[c] # <<>> /\ Head(toCl[c]).type = "server_share_info"
  /\ LET remote == Head(toCl[c]).incidents
         res == mergeMap(LocalMap(cl[c]), remote)
     IN /\ toSrv' = [toSrv EXCEPT ![c] = @ \o ReconcileFrames(res, remote)]
        /\ cl' = [cl EXCEPT ![c] = [ReconcileLocal(@, res) EXCEPT !.synced = TRUE]]
  /\ toCl' = [toCl EXCEPT ![c] = Tail(@)]
  /\ UNCHANGED <<srv, hist, mergeVars, liveVars>>

\* handleWebsocketMessage, cases add_incident, update_incident, remove_incident
RecvIncidentFrame(c) ==
  /\ toCl[c] # <<>> /\ Head(toCl[c]).type # "server_share_info"
  /\ LET f == Head(toCl[c])
     IN cl' = [cl EXCEPT ![c] =
                 IF f.type = "add_incident"
                   THEN IF hasIncident(@, f.incident.id) THEN @
                        ELSE storeIncident(@, f.incident.id, f.incident)
                 ELSE IF f.type = "update_incident"
                   THEN setIncident(@, f.incident.id, f.incident)
                 ELSE deleteIncident(@, f.id)]
  /\ toCl' = [toCl EXCEPT ![c] = Tail(@)]
  /\ UNCHANGED <<srv, toSrv, hist, mergeVars, liveVars>>

\* the server's message handler of a session: store, then broadcast
ServerRecv(c) ==
  /\ toSrv[c] # <<>>
  /\ LET f == Head(toSrv[c])
         out == IF f.type = "remove_incident"
                  THEN [type |-> f.type, id |-> f.id]
                  ELSE [type |-> f.type, incident |-> f.incident]
     IN /\ srv' = IF f.type = "add_incident" THEN srvAddIncident(srv, f.incident)
                  ELSE IF f.type = "update_incident" THEN srvEditIncident(srv, f.incident)
                  ELSE srvDeleteIncident(srv, f.id)
        /\ toCl' = broadcast(toCl, srv.clients, out)
  /\ toSrv' = [toSrv EXCEPT ![c] = Tail(@)]
  /\ UNCHANGED <<cl, hist, mergeVars, liveVars>>

SyncInit ==
  /\ SyncStart
  /\ reps = [r \in Replicas |-> EmptyMap]
  /\ last = NoLast
  /\ ops = 0

SyncNext ==
  \/ \E c \in Clients, id \in Ids : OfflineAdd(c, id)
  \/ \E c \in Clients, id \in Ids, k \in Keys, v \in Vals : OfflineEdit(c, id, k, v)
  \/ \E c \in Clients, id \in Ids : OfflineDelete(c, id)
  \/ \E c \in Clients : Join(c)
  \/ \E c \in Clients : RecvShareInfo(c)
  \/ \E c \in Clients : RecvIncidentFrame(c)
  \/ \E c \in Clients : ServerRecv(c)

SpecSync == SyncInit /\ [][SyncNext]_vars

(***************************************************************************)
(* The HTTP mutation endpoints of the server object.                       *)
(***************************************************************************)
\* total number of HTTP requests in a run
MaxReq == 3
\* the largest revision count a request carries
MaxRev == 2

\* an incident without revision (revision?: ...)
NoRevision == [none |-> TRUE]
\* the revisions a request body carries; of {count, user, history} the
\* handlers read the count only
Revisions == {NoRevision} \cup {[count |-> n] : n \in 0..MaxRev}
HttpNotes == {"v0", "v1"}

\* an incident as the endpoints take and store it
HttpIncident(id, note, revision) ==
  [id |-> id, event |-> Sku, team |-> "3796B", note |-> note, rule |-> "v0",
   revision |-> revision]

\* getRequestBody(request): an incident, or null for a body that is none
Bodies == {HttpIncident(id, note, rev) : id \in Ids, note \in HttpNotes, rev \in Revisions}
            \cup {Null}

\* response({success: true, data})
Success(data) == [success |-> TRUE, data |-> data]
\* response({success: false, reason: "bad_request", details})
BadRequest(details) == [success |-> FALSE, reason |-> "bad_request", details |-> details]

\* the outcome of a handler: the storage, the frames broadcast, the response
Outcome(st, frames, resp) == [srv |-> st, frames |-> frames, response |-> resp]

\* currentIncident?.revision?.count ?? 0
currentRevision(st, id) ==
  IF id \in DOMAIN st.records /\ st.records[id].revision # NoRevision
    THEN st.records[id].revision.count ELSE 0

\* a faulty handleAddIncident: the tombstone set is not consulted
handleAddIncidentUnchecked(st, incident) ==
  IF incident = Null THEN Outcome(st, <<>>, BadRequest("Must specify a valid incident."))
  ELSE Outcome(srvAddIncident(st, incident),
               <<[type |-> "add_incident", incident |-> incident]>>,
               Success(incident))

\* handleAddIncident(request)
handleAddIncident(st, incident) ==
  IF incident = Null THEN Outcome(st, <<>>, BadRequest("Must specify a valid incident."))
  ELSE IF incident.id \in st.deleted
    THEN Outcome(st, <<>>, BadRequest("That incident has been deleted."))
  ELSE Outcome(srvAddIncident(st, incident),
               <<[type |-> "add_incident", incident |-> incident]>>,
               Success(incident))

\* handleEditIncident(request)
handleEditIncident(st, body) ==
  IF body = Null
    THEN Outcome(st, <<>>, BadRequest("Must specify a valid incident to edit."))
  ELSE IF body.id \in st.deleted
    THEN Outcome(st, <<>>, BadRequest("That incident has been deleted."))
  ELSE IF body.revision # NoRevision /\ body.revision.count < currentRevision(st, body.id)
    THEN Outcome(st, <<>>, BadRequest("The incident has been edited more recently."))
  ELSE LET incident == IF body.revision = NoRevision
                         THEN [body EXCEPT !.revision = [count |-> 1]]
                         ELSE body
       IN IF incident.id \notin DOMAIN st.records
            THEN Outcome(st, <<>>, BadRequest("Could not edit incident with that ID"))
          ELSE Outcome(srvEditIncident(st, incident),
                       <<[type |-> "update_incident", incident |-> incident]>>,
                       Success(incident.revision))

\* params.get("id") of a request that names no id
NoId == ""

\* handleDeleteIncident(request)
handleDeleteIncident(st, id) ==
  IF id = NoId
    THEN Outcome(st, <<>>, BadRequest("Must specify id of incident to delete"))
  ELSE IF id \notin st.list
    THEN Outcome(srvDeleteIncident(st, id), <<>>,
                 BadRequest("Could not find incident with that ID"))
  ELSE Outcome(srvDeleteIncident(st, id),
               <<[type |-> "remove_incident", id |-> id]>>,
               Success("{}"))

\* the server handles one request: the storage is written, the frames are
\* broadcast to the sessions, the response is returned
Handle(method, body, id, out) ==
  /\ ops < MaxReq
  /\ srv' = out.srv
  /\ toCl' = IF out.frames = <<>> THEN toCl ELSE broadcast(toCl, srv.clients, out.frames[1])
  /\ last' = [kind |-> "http", n |-> ops + 1, method |-> method, body |-> body,
              id |-> id, response |-> out.response]
  /\ ops' = ops + 1
  /\ UNCHANGED <<reps, cl, toSrv, hist, liveVars>>

\* the id a request body names
BodyId(body) == IF body = Null THEN NoId ELSE body.id

PutIncident(body) == Handle("PUT", body, BodyId(body), handleAddIncident(srv, body))
PatchIncident(body) == Handle("PATCH", body, BodyId(body), handleEditIncident(srv, body))
DeleteIncident(id) == Handle("DELETE", Null, id, handleDeleteIncident(srv, id))

\* the server holds incident i1 at revision count 1 and has one session, of
\* client P, which has joined and reconciled
HttpStart == [id \in {"i1"} |-> HttpIncident("i1", "v0", [count |-> 1])]

HttpInit ==
  /\ LiveStart
  /\ srv = [records |-> HttpStart, list |-> {"i1"}, deleted |-> {}, clients |-> {"P"}]
  /\ cl = [c \in Clients |->
             [records |-> HttpStart, index |-> {"i1"}, deleted |-> {},
              readyState |-> IF c = "P" THEN "Open" ELSE "Closed", synced |-> c = "P"]]
  /\ toSrv = [c \in Clients |-> <<>>]
  /\ toCl = [c \in Clients |-> <<>>]
  /\ hist = [n |-> 0, edits |-> {}]
  /\ reps = [r \in Replicas |-> EmptyMap]
  /\ last = NoLast
  /\ ops = 0

HttpNext ==
  \/ \E body \in Bodies : PutIncident(body)
  \/ \E body \in Bodies : PatchIncident(body)
  \/ \E id \in Ids \cup {NoId} : DeleteIncident(id)

SpecHttp == HttpInit /\ [][HttpNext]_vars

\* ---- Scenario E: an incident added, edited and deleted without connection ----
\* the state after client P, still without connection, has recorded a new
\* incident that the server never held (addIncident on the offline path);
\* hist counts the offline mutations that follow
ScenarioEInit ==
  /\ LiveStart
  /\ srv = [records |-> StartValues, list |-> {"i1"}, deleted |-> {}, clients |-> {}]
  /\ cl = [d \in Clients |->
               IF d = "P"
               THEN storeIncident([records |-> StartValues, index |-> {"i1"}, deleted |-> {},
                                   readyState |-> "Closed", synced |-> FALSE],
                                  "i2", initLWW(NewIncident("i2"), ClientPeer[d]))
               ELSE [records |-> StartValues, index |-> {"i1"}, deleted |-> {},
                     readyState |-> "Closed", synced |-> FALSE]]
  /\ toSrv = [c \in Clients |-> <<>>]
  /\ toCl = [c \in Clients |-> <<>>]
  /\ hist = [n |-> 0, edits |-> {}]
  /\ reps = [r \in Replicas |-> EmptyMap]
  /\ last = NoLast
  /\ ops = 0

\* the offline edits and deletions, the joins and the frames of the session
ScenarioENext ==
  \/ \E c \in Clients, id \in Ids, k \in Keys, v \in Vals : OfflineEdit(c, id, k, v)
  \/ \E c \in Clients, id \in Ids : OfflineDelete(c, id)
  \/ \E c \in Clients : Join(c)
  \/ \E c \in Clients : RecvShareInfo(c)
  \/ \E c \in Clients : RecvIncidentFrame(c)
  \/ \E c \in Clients : ServerRecv(c)

SpecScenarioE == ScenarioEInit /\ [][ScenarioENext]_vars


(***************************************************************************)
(* The client's share connection: the ShareConnection store with connect   *)
(* and disconnect, the WebSocket objects connect creates with their        *)
(* onopen and onclose handlers, and the reconnect timers.                  *)
(***************************************************************************)
\* WebSocket objects created in a run
MaxSockets == 3
\* connect and disconnect commands given by the user in a run
MaxUser == 3

\* the invitations the user holds
Invitations == {"inv1", "inv2"}

\* enum ReadyState
ReadyState == {"Closed", "Connecting", "Open", "Closing"}

\* new WebSocket(url): the socket starts connecting.  inv is the invitation
\* its handlers close over; from is the timer whose callback made the
\* connect call (0: the user made it); cause and refused record why the
\* browser closed it
NewSocket(inv, from) ==
  [inv |-> inv, state |-> "connecting", cause |-> "none", from |-> from,
   refused |-> FALSE]

\* websocket?.close(): a socket that is connecting or open starts to close,
\* its close event is dispatched later; on any other socket a no-op
close(socks, ws) ==
  IF ws # 0 /\ socks[ws].state \in {"connecting", "open"}
    THEN [socks EXCEPT ![ws].state = "closing", ![ws].cause = "disconnect"]
    ELSE socks

\* disconnect(): close the current socket, clear the timer, reset the store
disconnect(c) ==
  [c EXCEPT !.socks = close(@, c.store.websocket),
            !.timers = @ \ {c.store.reconnectTimer},
            !.store = [readyState |-> "Closed", websocket |-> 0,
                       invitation |-> NoInvitation, reconnectTimer |-> 0]]

\* connect(invitation) up to its first await on the share id: nothing is done
\* when the store already holds this invitation, else disconnect() runs and
\* the call goes on later
connect(c, inv, from) ==
  IF c.store.invitation # NoInvitation /\ c.store.invitation = inv
    THEN c
    ELSE [disconnect(c) EXCEPT !.pending = Append(@, [inv |-> inv, from |-> from])]

RemoveAt(seq, i) == SubSeq(seq, 1, i - 1) \o SubSeq(seq, i + 1, Len(seq))

\* the rest of connect(invitation): the socket is created, its handlers are
\* set, and set({readyState: CONNECTING, invitation, websocket}) is called
\* (reconnectTimer is not among the fields set)
openSocket(c, i) ==
  [c EXCEPT !.socks = Append(@, NewSocket(c.pending[i].inv, c.pending[i].from)),
            !.pending = RemoveAt(@, i),
            !.store = [@ EXCEPT !.readyState = "Connecting",
                                !.invitation = c.pending[i].inv,
                                !.websocket = Len(c.socks) + 1]]

\* websocket.onopen of socket s
onopen(c, s) ==
  [c EXCEPT !.socks[s].state = "open", !.store.readyState = "Open"]

\* websocket.onclose of socket s: disconnect(), then a timer is set whose
\* callback calls connect with the invitation of s.  The timer takes the
\* number of the socket.
onclose(c, s) ==
  [disconnect([c EXCEPT !.socks[s].state = "closed"]) EXCEPT
     !.timers = @ \cup {s},
     !.store.reconnectTimer = s]

Sockets == 1..Len(conn.socks)

\* the user opens a shared event: connect(invitation)
UserConnect(inv) ==
  /\ conn.user < MaxUser
  /\ conn' = [connect(conn, inv, 0) EXCEPT !.user = @ + 1, !.held = inv]
  /\ UNCHANGED <<mergeVars, syncVars, sess, loc, rx>>

\* the user leaves the share: disconnect()
UserDisconnect ==
  /\ conn.user < MaxUser
  /\ conn' = [disconnect(conn) EXCEPT !.user = @ + 1, !.held = NoInvitation]
  /\ UNCHANGED <<mergeVars, syncVars, sess, loc, rx>>

\* a connect call gets past its awaits and creates its socket
ConnectSocket(i) ==
  /\ Len(conn.socks) < MaxSockets
  /\ conn' = openSocket(conn, i)
  /\ UNCHANGED <<mergeVars, syncVars, sess, loc, rx>>

\* the server accepts the socket: the open event
OnOpen(s) ==
  /\ conn.socks[s].state = "connecting"
  /\ conn' = onopen(conn, s)
  /\ UNCHANGED <<mergeVars, syncVars, sess, loc, rx>>

\* the close event of a socket that close() was called on
OnClose(s) ==
  /\ conn.socks[s].state = "closing"
  /\ conn' = onclose(conn, s)
  /\ UNCHANGED <<mergeVars, syncVars, sess, loc, rx>>

\* the server or the network closes an open socket: the close event
OnRemoteClose(s) ==
  /\ conn.socks[s].state = "open"
  /\ conn' = onclose([conn EXCEPT !.socks[s].cause = "remote"], s)
  /\ UNCHANGED <<mergeVars, syncVars, sess, loc, rx>>

\* the server refuses the connection (the invitation is revoked): the error
\* event, whose handler shows a toast, and then the close event
OnRefused(s) ==
  /\ conn.socks[s].state = "connecting"
  /\ conn' = onclose([conn EXCEPT !.socks[s].cause = "refused",
                                  !.socks[s].refused = TRUE], s)
  /\ UNCHANGED <<mergeVars, syncVars, sess, loc, rx>>

\* a reconnect timer fires: its callback calls connect(invitation)
TimerFire(t) ==
  /\ t \in conn.timers
  /\ conn' = connect([conn EXCEPT !.timers = @ \ {t}], conn.socks[t].inv, t)
  /\ UNCHANGED <<mergeVars, syncVars, sess, loc, rx>>

\* addIncident / editIncident / deleteIncident of the store up to the first
\* await: with no open socket and an invitation in the store the mutation
\* goes out as an HTTP request, else it is handed to send(message)
storeMutation(c) ==
  [c EXCEPT !.op = [path |-> IF c.store.readyState # "Open"
                                  /\ c.store.invitation # NoInvitation
                               THEN "http" ELSE "send",
                    offline |-> c.store.readyState # "Open"]]

\* send(message) after its awaits: get().websocket?.send(payload).  Without
\* a socket nothing is sent; a socket that is connecting throws, one that is
\* closing or closed discards the frame
send(c) ==
  [c EXCEPT !.op.path = IF c.store.websocket # 0
                           /\ c.socks[c.store.websocket].state = "open"
                        THEN "socket" ELSE "dropped"]

\* the device that shares an event mutates an incident
Mutate ==
  /\ conn.held # NoInvitation /\ conn.op.path # "send"
  /\ conn' = storeMutation(conn)
  /\ UNCHANGED <<mergeVars, syncVars, sess, loc, rx>>

\* a send call gets past its awaits
Send ==
  /\ conn.op.path = "send"
  /\ conn' = send(conn)
  /\ UNCHANGED <<mergeVars, syncVars, sess, loc, rx>>

ConnInit == SyncInit

ConnNext ==
  \/ \E inv \in Invitations : UserConnect(inv)
  \/ UserDisconnect
  \/ \E i \in 1..Len(conn.pending) : ConnectSocket(i)
  \/ \E s \in Sockets : OnOpen(s)
  \/ \E s \in Sockets : OnClose(s)
  \/ \E s \in Sockets : OnRemoteClose(s)
  \/ \E s \in Sockets : OnRefused(s)
  \/ \E t \in Sockets : TimerFire(t)
  \/ Mutate
  \/ Send

SpecConn == ConnInit /\ [][ConnNext]_vars

(***************************************************************************)
(* The server's socket sessions (EventIncidents.handleSession, its message *)
(* and quit handlers, broadcast) next to the storage and the HTTP          *)
(* handlers.  The server is driven by its environment: users open sockets, *)
(* sockets break, and frames and requests arrive in any order.  A handler  *)
(* is suspended where it awaits the invitation list, which is read from    *)
(* outside the object; other events are handled meanwhile.                 *)
(***************************************************************************)
\* events the server's environment produces in a run: sockets opened, sockets
\* broken, socket frames and HTTP requests
MaxEvents == 4

\* the peer ids of the users who hold an invitation
Users == {"u1", "u2"}

\* the incidents that socket frames and HTTP requests carry
SocketIncidents == {HttpIncident(id, "v1", NoRevision) : id \in Ids}

IncidentFrames == {"add_incident", "update_incident", "remove_incident"}

\* a frame sent on the socket of session to: its type and the user or the
\* incident id it is about
ServerFrame(to, type, about) == [to |-> to, type |-> type, about |-> about]

\* the sessions in this.clients
Listed(ss) == {ss.clients[i] : i \in DOMAIN ss.clients}

\* const client = {socket, ip, active: true, user}: the session takes the next
\* number, its user is recorded, and it is active (not in ss.inactive)
NewSession(ss, user) ==
  [ss EXCEPT !.user = Append(@, user),
             !.tasks = @ \cup {[kind |-> "join", s |-> Len(ss.user) + 1,
                                lefts |-> {}, depth |-> 0, ver |-> 0]},
             !.sent = {}, !.snap = NoSnap]

\* a faulty handleSession that pushes the session without the dedupe filter
handleSessionKeepsOld(ss, user) ==
  [NewSession(ss, user) EXCEPT !.clients = Append(@, Len(ss.user) + 1)]

\* handleSession up to its await of the invitation list: the sessions of the
\* same user are filtered out of this.clients, the new one is pushed
handleSession(ss, user) ==
  LET Other(c) == ss.user[c] # user
  IN [NewSession(ss, user) EXCEPT
        !.clients = Append(SelectSeq(@, Other), Len(ss.user) + 1)]

\* broadcast up to its await: the frame is sent to every session in
\* this.clients; a session whose send throws is marked inactive and dropped
\* from the list.  The call is suspended with its clientLefts; then is the
\* socket whose handleSession awaits this broadcast (0: none).  A call with
\* no clientLefts that nothing awaits has nothing left to do.  ss.ver counts
\* the incident frames broadcast so far; ss.early holds, for every session
\* that has not been sent its snapshot, the count at the last incident frame
\* sent to it.
broadcastFilter(ss, type, about, depth, then) ==
  LET lefts == Listed(ss) \cap ss.broken
      Kept(c) == c \notin ss.broken
      early == IF type \in IncidentFrames
                 THEN (Listed(ss) \ ss.broken) \ ss.registered ELSE {}
  IN [ss EXCEPT
        !.clients = SelectSeq(@, Kept),
        !.inactive = @ \cup lefts,
        !.sent = @ \cup {ServerFrame(c, type, about) : c \in Listed(ss) \ ss.broken},
        !.early = {e \in @ : e.to \notin early} \cup {[to |-> c, ver |-> ss.ver] : c \in early},
        !.depth = IF depth > @ THEN depth ELSE @,
        !.tasks = IF lefts = {} /\ then = 0 THEN @
                  ELSE @ \cup {[kind |-> "broadcast", s |-> then, lefts |-> lefts,
                                depth |-> depth,
                                ver |-> IF then = 0 THEN 0 ELSE ss.ver]}]

\* the rest of broadcast: clientLefts.forEach(client => this.broadcast(
\* server_user_remove)); each nested call runs up to its own await
RECURSIVE broadcastLefts(_, _, _)
broadcastLefts(ss, lefts, depth) ==
  IF lefts = {} THEN ss
  ELSE LET l == CHOOSE c \in lefts : \A d \in lefts : c <= d
       IN broadcastLefts(
            broadcastFilter(ss, "server_user_remove", ss.user[l], depth + 1, 0),
            lefts \ {l}, depth)

\* faulty: the data of the snapshot is read before the broadcast is awaited
getDataAtJoin(ss, t) == t.ver

\* data: await this.getData(), read when handleSession builds the snapshot:
\* the storage after ss.ver incident frames
getDataAtSend(ss, t) == ss.ver

\* the end of handleSession: the snapshot is built and sent to the new socket
\* and the quit handler is set.  When the send throws, handleSession ends
\* there.
sendShareInfo(ss, t) ==
  IF t.s \in ss.broken THEN ss
  ELSE [ss EXCEPT !.sent = @ \cup {ServerFrame(t.s, "server_share_info", "")},
                  !.snap = [to |-> t.s, ver |-> getDataAtSend(ss, t),
                            early |-> IF \E e \in ss.early : e.to = t.s
                                        THEN (CHOOSE e \in ss.early : e.to = t.s).ver
                                        ELSE 0],
                  !.early = {e \in @ : e.to # t.s},
                  !.registered = @ \cup {t.s}]

\* a user's client opens a socket: handleSession
Accept(user) ==
  /\ ops < MaxEvents
  /\ ops' = ops + 1
  /\ sess' = handleSession(sess, user)
  /\ UNCHANGED <<reps, last, syncVars, conn, loc, rx>>

\* handleSession goes on: broadcast(server_user_add)
JoinBroadcast(t) ==
  /\ t.kind = "join"
  /\ sess' = broadcastFilter([sess EXCEPT !.tasks = @ \ {t}, !.sent = {}, !.snap = NoSnap],
                             "server_user_add", sess.user[t.s], 0, t.s)
  /\ UNCHANGED <<mergeVars, syncVars, conn, loc, rx>>

\* a broadcast goes on after its await and returns; the handleSession that
\* awaits it goes on to its end
FinishBroadcast(t) ==
  /\ t.kind = "broadcast"
  /\ LET done == broadcastLefts([sess EXCEPT !.tasks = @ \ {t}, !.sent = {}, !.snap = NoSnap],
                                t.lefts, t.depth)
     IN sess' = IF t.s = 0 THEN done ELSE sendShareInfo(done, t)
  /\ UNCHANGED <<mergeVars, syncVars, conn, loc, rx>>

\* the incident frame f as the message handler stores it
StoredBy(st, f) ==
  IF f.type = "add_incident" THEN srvAddIncident(st, f.incident)
  ELSE IF f.type = "update_incident" THEN srvEditIncident(st, f.incident)
  ELSE srvDeleteIncident(st, f.id)

FrameAbout(f) == IF f.type = "remove_incident" THEN f.id ELSE f.incident.id

\* the message handler of session s: a session that is not active closes its
\* socket; else the frame is stored and then broadcast
SocketFrame(s, type, incident) ==
  /\ ops < MaxEvents /\ s \notin sess.closed
  /\ ops' = ops + 1
  /\ LET f == IF type = "remove_incident" THEN [type |-> type, id |-> incident.id]
              ELSE [type |-> type, incident |-> incident]
     IN IF s \in sess.inactive
          THEN /\ sess' = [sess EXCEPT !.broken = @ \cup {s}, !.sent = {}, !.snap = NoSnap]
               /\ last' = NoLast
               /\ srv' = srv
          ELSE /\ srv' = StoredBy(srv, f)
               /\ sess' = broadcastFilter([sess EXCEPT !.sent = {}, !.snap = NoSnap, !.ver = @ + 1],
                                          type, FrameAbout(f), 0, 0)
               /\ last' = [kind |-> "fanout", n |-> ops + 1, frame |-> f]
  /\ UNCHANGED <<reps, cl, toSrv, toCl, hist, conn, loc, rx>>

\* an HTTP request handled by handleAddIncident, handleEditIncident or
\* handleDeleteIncident: the storage is written, then the frame is broadcast
HttpRequest(out) ==
  /\ ops < MaxEvents
  /\ ops' = ops + 1
  /\ srv' = out.srv
  /\ IF out.frames = <<>>
       THEN sess' = [sess EXCEPT !.sent = {}, !.snap = NoSnap] /\ last' = NoLast
       ELSE /\ sess' = broadcastFilter([sess EXCEPT !.sent = {}, !.snap = NoSnap, !.ver = @ + 1],
                                       out.frames[1].type, FrameAbout(out.frames[1]), 0, 0)
            /\ last' = [kind |-> "fanout", n |-> ops + 1, frame |-> out.frames[1]]
  /\ UNCHANGED <<reps, cl, toSrv, toCl, hist, conn, loc, rx>>

\* the peer of socket s is gone: from now on socket.send throws
Break(s) ==
  /\ ops < MaxEvents /\ s \notin sess.broken
  /\ ops' = ops + 1
  /\ sess' = [sess EXCEPT !.broken = @ \cup {s}, !.sent = {}, !.snap = NoSnap]
  /\ UNCHANGED <<reps, last, syncVars, conn, loc, rx>>

\* the close (or error) event of socket s: quitHandler up to its await, when
\* handleSession has got as far as setting it
Quit(s) ==
  /\ s \in sess.broken \ sess.closed
  /\ LET Others(c) == c # s
     IN sess' = IF s \notin sess.registered
                  THEN [sess EXCEPT !.closed = @ \cup {s}, !.sent = {}, !.snap = NoSnap]
                  ELSE [sess EXCEPT !.closed = @ \cup {s},
                                    !.sent = {}, !.snap = NoSnap,
                                    !.inactive = @ \cup {s},
                                    !.clients = SelectSeq(@, Others),
                                    !.tasks = @ \cup {[kind |-> "quit", s |-> s, lefts |-> {},
                                                       depth |-> 0, ver |-> 0]}]
  /\ UNCHANGED <<mergeVars, syncVars, conn, loc, rx>>

\* quitHandler goes on: broadcast(server_user_remove)
QuitBroadcast(t) ==
  /\ t.kind = "quit"
  /\ sess' = broadcastFilter([sess EXCEPT !.tasks = @ \ {t}, !.sent = {}, !.snap = NoSnap],
                             "server_user_remove", sess.user[t.s], 0, 0)
  /\ UNCHANGED <<mergeVars, syncVars, conn, loc, rx>>

\* the server object stores i1; no socket has been accepted
ServerInit ==
  /\ LiveStart
  /\ srv = [records |-> HttpStart, list |-> {"i1"}, deleted |-> {}, clients |-> {}]
  /\ cl = [c \in Clients |->
             [records |-> HttpStart, index |-> {"i1"}, deleted |-> {},
              readyState |-> "Closed", synced |-> FALSE]]
  /\ toSrv = [c \in Clients |-> <<>>]
  /\ toCl = [c \in Clients |-> <<>>]
  /\ hist = [n |-> 0, edits |-> {}]
  /\ reps = [r \in Replicas |-> EmptyMap]
  /\ last = NoLast
  /\ ops = 0

SessionIds == 1..Len(sess.user)

ServerNext ==
  \/ \E user \in Users : Accept(user)
  \/ \E t \in sess.tasks : JoinBroadcast(t)
  \/ \E t \in sess.tasks : FinishBroadcast(t)
  \/ \E t \in sess.tasks : QuitBroadcast(t)
  \/ \E s \in SessionIds, b \in SocketIncidents,
        type \in IncidentFrames :
          SocketFrame(s, type, b)
  \/ \E b \in SocketIncidents : HttpRequest(handleAddIncident(srv, b))
  \/ \E b \in SocketIncidents : HttpRequest(handleEditIncident(srv, b))
  \/ \E id \in Ids : HttpRequest(handleDeleteIncident(srv, id))
  \/ \E s \in SessionIds : Break(s)
  \/ \E s \in SessionIds : Quit(s)

SpecServer == ServerInit /\ [][ServerNext]_vars

(***************************************************************************)
(* The mutations a device makes: newIncident, editIncident, deleteIncident *)
(* and editScratchpad write the local store and emit the mutation to the   *)
(* server, by an HTTP request or by a frame on the socket.  A mutation is  *)
(* followed step by step, from one await that yields to the next.          *)
(***************************************************************************)
\* the number of mutations a device makes
MaxLocal == 3

LocalNotes == {"v0", "v1"}
PadTexts == {"p0", "p1"}
Matches == {"m1"}

\* start a mutation
StartRun(l, op, id, value, pc) ==
  [l EXCEPT !.n = @ + 1,
            !.run = [op |-> op, n |-> l.n + 1, id |-> id, value |-> value,
                     pc |-> pc, sent |-> FALSE, written |-> FALSE]]

\* the effect of a mutation is in the local store
Applied(store, pads, m) ==
  IF m.op = "new"
    THEN m.id \in store.index /\ hasIncident(store, m.id) /\ store.records[m.id] = m.value
  ELSE IF m.op = "edit"
    THEN hasIncident(store, m.id) /\ store.records[m.id] = m.value
  ELSE IF m.op = "delete"
    THEN m.id \notin store.index /\ m.id \in store.deleted
  ELSE m.id \in DOMAIN pads /\ pads[m.id] = m.value

\* newIncident(incident): await setIncident(id, incident) under a fresh id
LocalNew(id, note) ==
  /\ loc.run.op = "none" /\ loc.n < MaxLocal
  /\ ~hasIncident(loc.store, id)
  /\ LET incident == LocalIncident(id, note, 0)
     IN loc' = [StartRun(loc, "new", id, incident, "index") EXCEPT
                  !.store = setIncident(@, id, incident)]
  /\ UNCHANGED <<mergeVars, syncVars, conn, sess, rx>>

\* newIncident goes on: the indices and the list of all incidents are written
LocalIndex ==
  /\ loc.run.op = "new" /\ loc.run.pc = "index"
  /\ loc' = [loc EXCEPT !.store.index = @ \cup {loc.run.id},
                        !.run.pc = "emit"]
  /\ UNCHANGED <<mergeVars, syncVars, conn, sess, rx>>

\* editIncident(id, incident): returns when no record is stored; else the
\* revision count goes up by one and await setIncident(id, updatedIncident)
LocalEdit(id, note) ==
  /\ loc.run.op = "none" /\ loc.n < MaxLocal
  /\ hasIncident(loc.store, id)
  /\ LET current == loc.store.records[id]
         updatedIncident == LocalIncident(id, note, current.revision.count + 1)
     IN loc' = [StartRun(loc, "edit", id, updatedIncident, "emit") EXCEPT
                  !.store = setIncident(@, id, updatedIncident)]
  /\ UNCHANGED <<mergeVars, syncVars, conn, sess, rx>>

\* deleteIncident(id): returns when no record is stored; else the id moves
\* from the indices to the deleted indices
LocalDelete(id) ==
  /\ loc.run.op = "none" /\ loc.n < MaxLocal
  /\ hasIncident(loc.store, id)
  /\ loc' = [StartRun(loc, "delete", id, Null, "emit") EXCEPT
               !.store = deleteIncident(@, id)]
  /\ UNCHANGED <<mergeVars, syncVars, conn, sess, rx>>

\* the emission a mutation ends with, and how it went
EmitOf(l, outcome) ==
  [n |-> l.run.n, op |-> l.run.op, id |-> l.run.id, value |-> l.run.value,
   outcome |-> outcome]

\* faulty: a mutation whose request failed takes its record out of the store
finishRunRollsBack(l, outcome) ==
  [l EXCEPT !.run = NoRun,
            !.emit = EmitOf(l, outcome),
            !.store = IF outcome = "ok" THEN @
                      ELSE [records |-> [i \in DOMAIN @.records \ {l.run.id} |-> @.records[i]],
                            index |-> @.index \ {l.run.id},
                            deleted |-> @.deleted \ {l.run.id}]]

\* the mutation returns or rejects: no code undoes what it wrote
finishRun(l, outcome) ==
  [l EXCEPT !.run = NoRun, !.emit = EmitOf(l, outcome)]

\* the end of newIncident, editIncident and deleteIncident: await
\* addServerIncident / editServerIncident / deleteServerIncident.  The request
\* goes out and succeeds, or fetch rejects and the mutation rejects with it.
LocalRequest(outcome) ==
  /\ loc.run.op \in {"new", "edit", "delete"} /\ loc.run.pc = "emit"
  /\ loc' = finishRun(loc, outcome)
  /\ UNCHANGED <<mergeVars, syncVars, conn, sess, rx>>

\* updateRemote is false, or deleteIncident finds no accepted invitation:
\* nothing is emitted
LocalOnly ==
  /\ loc.run.op \in {"new", "edit", "delete"} /\ loc.run.pc = "emit"
  /\ loc' = [loc EXCEPT !.run = NoRun]
  /\ UNCHANGED <<mergeVars, syncVars, conn, sess, rx>>

\* editScratchpad(id, scratchpad): the revision count goes up by one;
\* updateScratchpad(id, value) is called and not awaited, then
\* setMatchScratchpad(id, value) is awaited: both are under way
LocalEditScratchpad(m, text) ==
  /\ loc.run.op = "none" /\ loc.n < MaxLocal
  /\ LET value == Scratchpad(text, loc.pads[m].count + 1)
     IN loc' = StartRun(loc, "scratchpad", m, value, "both")
  /\ UNCHANGED <<mergeVars, syncVars, conn, sess, rx>>

\* a mutation both halves of which are done is over
endRun(l) == IF l.run.sent /\ l.run.written THEN [l EXCEPT !.run = NoRun] ELSE l

\* send(message) after its awaits: get().websocket?.send(payload) sends
\* nothing without a socket, sends the frame, or throws; the rejection of
\* updateScratchpad is handled by nobody
PadSend ==
  /\ loc.run.op = "scratchpad" /\ ~loc.run.sent
  /\ LET outcome == IF loc.socket = "none" THEN "nosocket"
                    ELSE IF loc.socket = "open" THEN "ok" ELSE "failed"
     IN loc' = endRun([loc EXCEPT
                  !.run.sent = TRUE,
                  !.emit = EmitOf(loc, outcome)])
  /\ UNCHANGED <<mergeVars, syncVars, conn, sess, rx>>

\* setMatchScratchpad(id, value) completes: set(id, scratchpad)
PadWrite ==
  /\ loc.run.op = "scratchpad" /\ ~loc.run.written
  /\ loc' = endRun([loc EXCEPT !.pads[loc.run.id] = loc.run.value,
                               !.run.written = TRUE])
  /\ UNCHANGED <<mergeVars, syncVars, conn, sess, rx>>

\* the connection gets a socket, loses it, or its socket goes bad
LocalSocket(s) ==
  /\ loc.socket # s
  /\ loc' = [loc EXCEPT !.socket = s]
  /\ UNCHANGED <<mergeVars, syncVars, conn, sess, rx>>

LocalInit == SyncInit

LocalNext ==
  \/ \E id \in Ids, note \in LocalNotes : LocalNew(id, note)
  \/ LocalIndex
  \/ \E id \in Ids, note \in LocalNotes : LocalEdit(id, note)
  \/ \E id \in Ids : LocalDelete(id)
  \/ \E outcome \in {"ok", "failed"} : LocalRequest(outcome)
  \/ LocalOnly
  \/ \E m \in Matches, text \in PadTexts : LocalEditScratchpad(m, text)
  \/ PadSend
  \/ PadWrite
  \/ \E s \in {"none", "open", "broken"} : LocalSocket(s)

SpecLocal == LocalInit /\ [][LocalNext]_vars


\* ---- the client's message handler (websocket.onmessage, handleWebsocketMessage) ----
\* the most frames that arrive on the socket
MaxFrames == 3

\* the local stores a client can hold when its socket opens: untouched, with
\* the incident edited without connection, with it deleted without connection
RxStores ==
  {RxStart.store,
   setIncident(RxStart.store, "i1", updateLWW(StartValues["i1"], "note", "v1", ClientPeer["P"])),
   deleteIncident(RxStart.store, "i1")}

\* the server storages the join snapshot can be read from: untouched, with
\* the incident edited by another referee, with it deleted
RxServers ==
  LET start == [records |-> StartValues, list |-> {"i1"}, deleted |-> {}, clients |-> {}]
  IN {start,
      srvEditIncident(start, updateLWW(StartValues["i1"], "note", "v2", PeerB)),
      srvDeleteIncident(start, "i1")}

\* createServerShareMessage: the snapshot frame (the scratchpads it carries
\* are none)
Snapshots == {[type |-> "server_share_info", incidents |-> getData(s)] : s \in RxServers}

\* the frames the server broadcasts to the session after another referee's
\* mutation
RxIncidentFrames ==
  {[type |-> "remove_incident", id |-> "i1"],
   [type |-> "update_incident", incident |-> updateLWW(StartValues["i1"], "rule", "v1", PeerB)],
   [type |-> "add_incident", incident |-> initLWW(NewIncident("i2"), PeerB)]}

\* the first await a handleWebsocketMessage call stops at
FirstAwait(f) ==
  CASE f.type = "server_share_info" -> "getIncidentsByEvent"
    [] f.type = "add_incident" -> "hasIncident"
    [] f.type = "update_incident" -> "setIncident"
    [] f.type = "remove_incident" -> "deleteIncident"

\* websocket.onmessage: the frame is parsed and handleWebsocketMessage is
\* called with it; the call runs to its first await and onmessage returns
\* without awaiting it.  The snapshot is the first frame of the socket.
onmessage(f) ==
  /\ rx.arrived < MaxFrames
  /\ (rx.arrived = 0) <=> (f.type = "server_share_info")
  /\ rx' = [rx EXCEPT !.arrived = @ + 1,
                      !.running = @ \cup {[n |-> rx.arrived + 1, frame |-> f, pc |-> FirstAwait(f),
                                           local |-> EmptyMap, res |-> Null]}]
  /\ UNCHANGED <<mergeVars, syncVars, conn, sess, loc>>

\* a suspended call goes on to its next await, or returns
Resumed(r, h, g) == [r EXCEPT !.running = (@ \ {h}) \cup {g}]
Returned(r, h) == [r EXCEPT !.running = @ \ {h}]

\* the frames of one type the reconcile sends (store.addIncident,
\* store.editIncident, store.deleteIncident)
FramesOfType(frames, type) ==
  LET Test(f) == f.type = type IN SelectSeq(frames, Test)

\* handleWebsocketMessage, case server_share_info, from one await to the next
shareInfo(r, h) ==
  LET remote == h.frame.incidents
  IN CASE h.pc = "getIncidentsByEvent" ->
            Resumed(r, h, [h EXCEPT !.local.values = LocalMap(r.store).values,
                                    !.pc = "getDeletedIncidentsForEvent"])
       [] h.pc = "getDeletedIncidentsForEvent" ->
            LET local == [h.local EXCEPT !.deleted = r.store.deleted]
                res == mergeMap(local, remote)
            IN Resumed([r EXCEPT !.out = @ \o FramesOfType(ReconcileFrames(res, remote), "add_incident")],
                       h, [h EXCEPT !.local = local, !.res = res, !.pc = "remote.update"])
       [] h.pc = "remote.update" ->
            Resumed([r EXCEPT !.out = @ \o FramesOfType(ReconcileFrames(h.res, remote), "update_incident")],
                    h, [h EXCEPT !.pc = "remote.remove"])
       [] h.pc = "remote.remove" ->
            Resumed([r EXCEPT !.out = @ \o FramesOfType(ReconcileFrames(h.res, remote), "remove_incident")],
                    h, [h EXCEPT !.pc = "addManyIncidents"])
       [] h.pc = "addManyIncidents" ->
            Resumed([r EXCEPT !.store = addManyIncidents(@, h.res.resolved,
                                                         CreateIds(h.res.local.values, h.local))],
                    h, [h EXCEPT !.pc = "setManyIncidents"])
       [] h.pc = "setManyIncidents" ->
            Resumed([r EXCEPT !.store = setManyIncidents(@, h.res.resolved,
                                                         UpdateIds(h.res.local.values, h.local))],
                    h, [h EXCEPT !.pc = "deleteManyIncidents"])
       [] h.pc = "deleteManyIncidents" ->
            Resumed([r EXCEPT !.store = deleteManyIncidents(@, h.res.local.deleted)],
                    h, [h EXCEPT !.pc = "scratchpads"])
       [] h.pc = "scratchpads" -> Returned(r, h)

\* handleWebsocketMessage, cases add_incident, update_incident and
\* remove_incident, from one await to the next
incidentFrame(r, h) ==
  CASE h.pc = "hasIncident" ->
         IF hasIncident(r.store, h.frame.incident.id) THEN Returned(r, h)
         ELSE Resumed(r, h, [h EXCEPT !.pc = "addIncident"])
    [] h.pc = "addIncident" ->
         Returned([r EXCEPT !.store = storeIncident(@, h.frame.incident.id, h.frame.incident)], h)
    [] h.pc = "setIncident" ->
         Returned([r EXCEPT !.store = setIncident(@, h.frame.incident.id, h.frame.incident)], h)
    [] h.pc = "deleteIncident" ->
         Returned([r EXCEPT !.store = deleteIncident(@, h.frame.id)], h)

\* the awaited promise of the call for frame n settles and the call goes on
handleShareInfo(n) ==
  /\ \E h \in rx.running :
       /\ h.n = n /\ h.frame.type = "server_share_info"
       /\ rx' = shareInfo(rx, h)
  /\ UNCHANGED <<mergeVars, syncVars, conn, sess, loc>>

handleIncidentFrame(n) ==
  /\ \E h \in rx.running :
       /\ h.n = n /\ h.frame.type # "server_share_info"
       /\ rx' = incidentFrame(rx, h)
  /\ UNCHANGED <<mergeVars, syncVars, conn, sess, loc>>

RecvInit ==
  /\ conn = ConnStart
  /\ sess = SessStart
  /\ loc = LocStart
  /\ rx \in {[RxStart EXCEPT !.store = s] : s \in RxStores}
  /\ srv = [records |-> StartValues, list |-> {"i1"}, deleted |-> {}, clients |-> {}]
  /\ cl = [c \in Clients |->
             [records |-> StartValues, index |-> {"i1"}, deleted |-> {},
              readyState |-> "Closed", synced |-> FALSE]]
  /\ toSrv = [c \in Clients |-> <<>>]
  /\ toCl = [c \in Clients |-> <<>>]
  /\ hist = [n |-> 0, edits |-> {}]
  /\ reps = [r \in Replicas |-> EmptyMap]
  /\ last = NoLast
  /\ ops = 0

RecvNext ==
  \/ \E f \in Snapshots \cup RxIncidentFrames : onmessage(f)
  \/ \E n \in 1..MaxFrames : handleShareInfo(n)
  \/ \E n \in 1..MaxFrames : handleIncidentFrame(n)

SpecRecv == RecvInit /\ [][RecvNext]_vars


\* ---- properties of the share session (checked under SpecSync) ----
\* every client is connected and has reconciled, and no frame is in flight
Quiescent ==
  /\ \A c \in Clients : cl[c].readyState = "Open" /\ cl[c].synced
  /\ \A c \in Clients : toSrv[c] = <<>> /\ toCl[c] = <<>>

\* the field values of an envelope
Fields(env) == [k \in Keys |-> env[k]]

\* C2 - Convergence: once every client has reconnected and reconciled and
\* the server has applied every frame, the clients and the server hold
\* the same live incident ids with the same field values and the same
\* tombstones (compared on the ids the client has a record of: a client that
\* never stored an incident keeps no tombstone of it), and an offline edit
\* that was the only one of its field is kept.
C2_Convergence ==
  Quiescent =>
    /\ \A c \in Clients : cl[c].index = srv.list
    /\ \A c \in Clients :
         cl[c].deleted \cap DOMAIN cl[c].records = srv.deleted \cap DOMAIN cl[c].records
    /\ \A c \in Clients : \A id \in cl[c].index \cap srv.list :
         Fields(cl[c].records[id]) = Fields(srv.records[id])
    /\ \A e \in hist.edits :
         (/\ \A f \in hist.edits : (f[2] = e[2] /\ f[3] = e[3]) => f = e
          /\ e[2] \notin srv.deleted)
           => (e[2] \in srv.list /\ srv.records[e[2]][e[3]] = e[4])

(***************************************************************************)
(* Properties of the merge primitives (checked under SpecMerge).           *)
(***************************************************************************)
\* the consistent maps the replicas hold, paired
ConsistentPairs ==
  {pr \in Replicas \X Replicas : Consistent(reps[pr[1]]) /\ Consistent(reps[pr[2]])}

\* the ids both maps hold an envelope for
Shared(local, remote) == sharedIds(local, remote)

\* C1 - Tombstone permanence: for every pair of consistent maps local and
\* remote, resolved.values of mergeMap holds no id that is in local.deleted or
\* in remote.deleted, even when one side still holds an envelope for the id.
C1_TombstonePermanence ==
  \A pr \in ConsistentPairs :
    LET res == mergeMap(reps[pr[1]], reps[pr[2]]).resolved
    IN DOMAIN res.values \cap res.deleted = {}

\* C3 - Commutativity of mergeMap: for all consistent maps a and b the
\* resolved state of mergeMap(a, b) equals that of mergeMap(b, a).
C3_MergeMapCommutative ==
  \A pr \in ConsistentPairs :
    mergeMap(reps[pr[1]], reps[pr[2]]).resolved = mergeMap(reps[pr[2]], reps[pr[1]]).resolved

\* C4 - Commutativity of mergeLWW: for all envelopes a and b of the same
\* record, mergeLWW(a, b).resolved equals mergeLWW(b, a).resolved.
C4_MergeLWWCommutative ==
  \A r, s \in Replicas : \A id \in Shared(reps[r], reps[s]) :
    /\ reps[r].values[id].id = reps[s].values[id].id
    /\ mergeLWW(reps[r].values[id], reps[s].values[id]).resolved
         = mergeLWW(reps[s].values[id], reps[r].values[id]).resolved

C6_Idempotence ==
  \A r \in Replicas :
    /\ \A id \in DOMAIN reps[r].values :
         mergeLWW(reps[r].values[id], reps[r].values[id]).resolved = reps[r].values[id]
    /\ Consistent(reps[r]) => mergeMap(reps[r], reps[r]).resolved = reps[r]
    /\ mergeGrowSet(reps[r].deleted, reps[r].deleted).resolved = reps[r].deleted

\* a reconcile of two replicas that held the same edited map, with a tombstone
\* or an edited field in it, resolved to that map
C6_Witness ==
  /\ last.kind = "mergeMap"
  /\ last.local = last.remote
  /\ Consistent(last.local)
  /\ \/ last.local.deleted # {}
     \/ \E id \in DOMAIN last.local.values, k \in Keys :
          last.local.values[id].consistency[k].count > 0
  /\ last.result.resolved = last.local

\* the four push lists of a merge result are empty
NothingToPush(res) ==
  /\ res.local.values = {} /\ res.local.deleted = {}
  /\ res.remote.values = {} /\ res.remote.deleted = {}

\* C7 - Driving: after local has applied the local output of mergeMap(local,
\* remote) and remote its remote output, a second mergeMap of the two has
\* nothing left to push in either direction.
C7_Driving ==
  \A pr \in ConsistentPairs :
    LET local == reps[pr[1]]
        remote == reps[pr[2]]
        res == mergeMap(local, remote)
        local2 == ApplyMerge(local, res.resolved, res.local)
        remote2 == ApplyMerge(remote, res.resolved, res.remote)
    IN NothingToPush(mergeMap(local2, remote2))

\* C8 - Higher count dominates: for a key whose counts differ, mergeLWW
\* resolves the value and the consistency entry to those of the side with the
\* larger count whatever the peer ids, and lists the key in changed exactly
\* when that side is remote.
C8_HigherCountDominates ==
  \A r, s \in Replicas : \A id \in Shared(reps[r], reps[s]) : \A k \in Keys :
    LET local == reps[r].values[id]
        remote == reps[s].values[id]
        res == mergeLWW(local, remote)
        high == IF local.consistency[k].count > remote.consistency[k].count
                  THEN local ELSE remote
    IN local.consistency[k].count # remote.consistency[k].count =>
         /\ res.resolved[k] = high[k]
         /\ res.resolved.consistency[k] = high.consistency[k]
         /\ (k \in res.changed) <=> (high = remote)

\* a reconcile in which local held the larger count of a key against a remote
\* whose last writer has the larger peer id, and local's value was kept
C8_Witness ==
  /\ last.kind = "mergeMap"
  /\ \E id \in Shared(last.local, last.remote), k \in Keys :
       LET local == last.local.values[id]
           remote == last.remote.values[id]
       IN /\ local.consistency[k].count > remote.consistency[k].count
          /\ LexLess(local.consistency[k].peer, remote.consistency[k].peer)
          /\ local[k] # remote[k]
          /\ last.result.resolved.values[id][k] = local[k]
          /\ last.result.resolved.values[id].consistency[k] = local.consistency[k]

\* the place of a peer id in the lexicographic order: "A" < "AB" < "B"
LexRank(p) == IF p = PeerA THEN 1 ELSE IF p = PeerAB THEN 2 ELSE 3

\* C9 - Tie-break: for a key with equal counts and different values, mergeLWW
\* resolves to the side whose last writer has the lexicographically larger
\* peer id; the key is in changed if that side is remote, in rejected if it
\* is local.
C9_TieBreak ==
  \A r, s \in Replicas : \A id \in Shared(reps[r], reps[s]) : \A k \in Keys :
    LET local == reps[r].values[id]
        remote == reps[s].values[id]
        res == mergeLWW(local, remote)
        lp == local.consistency[k].peer
        rp == remote.consistency[k].peer
    IN (local.consistency[k].count = remote.consistency[k].count /\ local[k] # remote[k]) =>
         /\ LexRank(lp) < LexRank(rp) =>
              /\ res.resolved[k] = remote[k]
              /\ res.resolved.consistency[k] = remote.consistency[k]
              /\ k \in res.changed /\ k \notin res.rejected
         /\ LexRank(rp) < LexRank(lp) =>
              /\ res.resolved[k] = local[k]
              /\ res.resolved.consistency[k] = local.consistency[k]
              /\ k \in res.rejected /\ k \notin res.changed

\* a reconcile that broke a tie between "A" and "AB" in favour of "AB"
C9_Witness ==
  /\ last.kind = "mergeMap"
  /\ \E id \in Shared(last.local, last.remote), k \in Keys :
       LET local == last.local.values[id]
           remote == last.remote.values[id]
       IN /\ local.consistency[k].count = remote.consistency[k].count
          /\ local.consistency[k].count > 0
          /\ local[k] # remote[k]
          /\ local.consistency[k].peer = PeerA
          /\ remote.consistency[k].peer = PeerAB
          /\ last.result.resolved.values[id][k] = remote[k]
          /\ id \in last.result.local.values

\* C10 - Per-key resolution: when two replicas of one record have edited
\* disjoint keys (each is ahead of the other on its own key), mergeLWW and
\* mergeMap resolve to a record that carries both edits, each key with the
\* value and the consistency entry of the replica that edited it.
C10_PerKeyResolution ==
  \A r, s \in Replicas : \A id \in Shared(reps[r], reps[s]) :
    \A k1 \in Keys : \A k2 \in Keys \ {k1} :
      \A local \in {reps[r].values[id]} : \A remote \in {reps[s].values[id]} :
        (/\ local.consistency[k1].count > remote.consistency[k1].count
         /\ remote.consistency[k2].count > local.consistency[k2].count) =>
          \A both \in {mergeLWW(local, remote).resolved} :
            /\ both[k1] = local[k1] /\ both.consistency[k1] = local.consistency[k1]
            /\ both[k2] = remote[k2] /\ both.consistency[k2] = remote.consistency[k2]
            /\ both.id = id
            /\ mergeMap(reps[r], reps[s]).resolved.values[id] = both

\* a reconcile of two replicas, one ahead on note and the other ahead on rule,
\* resolved to a record with local's note and remote's rule
C10_Witness ==
  /\ last.kind = "mergeMap"
  /\ \E id \in Shared(last.local, last.remote) :
       LET local == last.local.values[id]
           remote == last.remote.values[id]
           got == last.result.resolved.values[id]
       IN /\ local.consistency["note"].count > remote.consistency["note"].count
          /\ remote.consistency["rule"].count > local.consistency["rule"].count
          /\ got.note = local.note /\ got.note # remote.note
          /\ got.rule = remote.rule /\ got.rule # local.rule
          /\ got.consistency["note"] = local.consistency["note"]
          /\ got.consistency["rule"] = remote.consistency["rule"]

\* the peer ids of the replicas
Peers == {PeerOf[r] : r \in Replicas}

\* C11 - Null rules of mergeLWW: with both operands null the result is
\* resolved = null with nothing changed; with only remote null it is resolved
\* = local with nothing changed; with only local null it is resolved = remote
\* with every key that is not immutable changed; rejected is empty in all
\* three cases.
C11_NullRules ==
  /\ mergeLWW(Null, Null) = [resolved |-> Null, changed |-> {}, rejected |-> {}]
  /\ \A r \in Replicas : \A id \in DOMAIN reps[r].values :
       \A x \in {reps[r].values[id]} :
         /\ mergeLWW(x, Null) = [resolved |-> x, changed |-> {}, rejected |-> {}]
         /\ mergeLWW(Null, x) =
              [resolved |-> x, changed |-> RecordKeys \ Ignore, rejected |-> {}]
  /\ last.kind = "mergeLWW" =>
       /\ (last.local = Null \/ last.remote = Null) => last.result.rejected = {}
       /\ last.remote = Null => (last.result.resolved = last.local /\ last.result.changed = {})
       /\ (last.local = Null /\ last.remote # Null) =>
            (last.result.resolved = last.remote /\ last.result.changed = {"note", "rule"})

\* a mergeLWW of a missing local envelope with an edited remote envelope
\* resolved to the remote envelope with both keys changed
C11_Witness ==
  /\ last.kind = "mergeLWW"
  /\ last.local = Null /\ last.remote # Null
  /\ \E k \in Keys : last.remote.consistency[k].count > 0
  /\ last.result = [resolved |-> last.remote, changed |-> {"note", "rule"}, rejected |-> {}]

\* C12 - update on an envelope: if the new value equals env[key] the envelope
\* is returned unchanged; otherwise the count of the key increases by exactly
\* one, the previous value with the previous writer's peer id is appended to
\* the key's history, env[key] becomes the new value and the key's peer
\* becomes the updating peer.
C12_Update ==
  \A r \in Replicas : \A id \in DOMAIN reps[r].values :
    \A env \in {reps[r].values[id]} : \A k \in Keys, v \in Vals, p \in Peers :
      \A e \in {updateLWW(env, k, v, p)} :
        IF env[k] = v THEN e = env
        ELSE /\ e.consistency[k].count = env.consistency[k].count + 1
             /\ Len(e.consistency[k].history) = Len(env.consistency[k].history) + 1
             /\ SubSeq(e.consistency[k].history, 1, Len(env.consistency[k].history))
                  = env.consistency[k].history
             /\ e.consistency[k].history[Len(e.consistency[k].history)]
                  = [prev |-> env[k], peer |-> env.consistency[k].peer]
             /\ e[k] = v
             /\ e.consistency[k].peer = p

\* a replica holds an envelope a key of which it has edited twice: the count
\* is 2, the history names the creator "B" and then the editor, who is also
\* the key's peer
C12_Witness ==
  \E r \in Replicas \ {"c"} : \E id \in DOMAIN reps[r].values : \E k \in Keys :
    LET env == reps[r].values[id]
        c == env.consistency[k]
    IN /\ c.count = 2
       /\ c.peer = PeerOf[r]
       /\ Len(c.history) = 2
       /\ c.history[1] = [prev |-> "v0", peer |-> PeerB]
       /\ c.history[2].peer = PeerOf[r]
       /\ c.history[2].prev # "v0" /\ c.history[2].prev # env[k]

\* C13 - Field independence: an update of key k1 leaves the value and the
\* consistency entry (count, peer, history) of every other key unchanged, and
\* leaves the immutable keys unchanged.
C13_FieldIndependence ==
  \A r \in Replicas : \A id \in DOMAIN reps[r].values :
    \A env \in {reps[r].values[id]} : \A k1 \in Keys, v \in Vals, p \in Peers :
      \A e \in {updateLWW(env, k1, v, p)} :
        /\ \A k2 \in Keys \ {k1} :
             e[k2] = env[k2] /\ e.consistency[k2] = env.consistency[k2]
        /\ \A i \in Ignore : e[i] = env[i]

\* a replica holds an envelope whose note it has edited while its rule still
\* has the value and the consistency entry the creator "B" gave it
C13_Witness ==
  \E r \in Replicas \ {"c"} : \E id \in DOMAIN reps[r].values :
    LET env == reps[r].values[id]
    IN /\ env.consistency["note"].count > 0
       /\ env.consistency["note"].peer = PeerOf[r]
       /\ env.note # "v0"
       /\ env.rule = "v0"
       /\ env.consistency["rule"] = [count |-> 0, peer |-> PeerB, history |-> <<>>]
       /\ env.id = id /\ env.event = Sku

C15_ValuePushDirections ==
  \A pr \in ConsistentPairs :
    \A local \in {reps[pr[1]]} : \A remote \in {reps[pr[2]]} :
      \A res \in {mergeMap(local, remote)} :
        /\ res.remote.values =
             (DOMAIN local.values \ DOMAIN remote.values)
               \cup {id \in Shared(local, remote) :
                       mergeLWW(local.values[id], remote.values[id]).rejected # {}}
        /\ res.local.values =
             (DOMAIN remote.values \ DOMAIN local.values)
               \cup {id \in Shared(local, remote) :
                       mergeLWW(local.values[id], remote.values[id]).changed # {}}
        /\ \A id \in Shared(local, remote) :
             (\E k \in Keys : local.values[id].consistency[k].count
                                > remote.values[id].consistency[k].count)
               => id \in res.remote.values

\* a reconcile in which local held an id remote lacked and, for a shared id,
\* the higher count of a key: both ids were pushed to remote, none to local
C15_Witness ==
  /\ last.kind = "mergeMap"
  /\ Consistent(last.local) /\ Consistent(last.remote)
  /\ \E id \in DOMAIN last.local.values \ DOMAIN last.remote.values :
       id \in last.result.remote.values
  /\ \E id \in Shared(last.local, last.remote) : \E k \in Keys :
       /\ last.local.values[id].consistency[k].count
            > last.remote.values[id].consistency[k].count
       /\ id \in last.result.remote.values
  /\ last.result.local.values = {}

\* C16 - Tombstone push directions of mergeMap: resolved.deleted is the union
\* of the two deleted sets, local.deleted is exactly the ids tombstoned on
\* remote and not on local, remote.deleted exactly the ids tombstoned on local
\* and not on remote.
C16_TombstonePushDirections ==
  \A r, s \in Replicas :
    \A res \in {mergeMap(reps[r], reps[s])} :
      /\ res.resolved.deleted = reps[r].deleted \cup reps[s].deleted
      /\ res.local.deleted = reps[s].deleted \ reps[r].deleted
      /\ res.remote.deleted = reps[r].deleted \ reps[s].deleted

\* a reconcile with a remote that had tombstoned an id local had not: the id
\* was listed for deletion on the local side only, and local tombstoned it
C16_Witness ==
  /\ last.kind = "mergeMap"
  /\ \E id \in last.remote.deleted \ last.local.deleted :
       /\ id \in last.result.local.deleted
       /\ id \notin last.result.remote.deleted
       /\ id \in last.result.resolved.deleted
       /\ \A r \in Replicas : reps[r].deleted # {} => id \in reps[r].deleted
       /\ Cardinality({r \in Replicas : id \in reps[r].deleted}) >= 2

\* C17 - Scenario A, a remote delete beats a local copy: when a client that
\* lists an incident is about to handle a snapshot that has the incident in
\* deleted, the mergeMap of the join reconcile returns the id in
\* resolved.deleted and in local.deleted and not in local.values, and after
\* the reconcile is applied the client no longer lists the incident.
C17_RemoteDeleteBeatsLocalCopy ==
  \A c \in Clients :
    (toCl[c] # <<>> /\ Head(toCl[c]).type = "server_share_info") =>
      \A id \in cl[c].index \cap Head(toCl[c]).incidents.deleted :
        \A res \in {mergeMap(LocalMap(cl[c]), Head(toCl[c]).incidents)} :
          /\ id \in res.resolved.deleted
          /\ id \in res.local.deleted
          /\ id \notin res.local.values
          /\ id \notin ReconcileLocal(cl[c], res).index

(***************************************************************************)
(* Properties of the HTTP endpoints (checked under SpecHttp).              *)
(***************************************************************************)
\* this step is the handling of a request of the method that names an id
Handled(method) ==
  /\ last' # last
  /\ last'.kind = "http"
  /\ last'.method = method
  /\ last'.id # NoId

\* C18 - PUT /incident for an id in the server's tombstone set is answered
\* with a failure response and changes nothing: the incident list, the stored
\* record and the tombstone set are as before and no frame is broadcast.
C18_PutTombstonedRefused ==
  [][(Handled("PUT") /\ last'.id \in srv.deleted) =>
       /\ last'.response.success = FALSE
       /\ srv'.list = srv.list
       /\ srv'.records = srv.records
       /\ srv'.deleted = srv.deleted
       /\ toCl' = toCl]_vars

\* the last request was a PUT of an incident that had been deleted, with a
\* body other than the stored record: it was refused, the id is not listed,
\* the record is the old one and the last frame sent is the remove_incident
C18_Witness ==
  /\ last.kind = "http" /\ last.method = "PUT" /\ last.id # NoId
  /\ last.n > 1
  /\ last.response.success = FALSE
  /\ last.id \in srv.deleted
  /\ last.id \notin srv.list
  /\ srv.records[last.id] # last.body
  /\ toCl["P"] # <<>>
  /\ toCl["P"][Len(toCl["P"])] = [type |-> "remove_incident", id |-> last.id]

\* C19 - PATCH /incident whose revision count is lower than the one stored
\* is rejected with reason stale, the stored incident is not overwritten and
\* nothing is broadcast; a PATCH of a live incident whose count is not lower
\* is stored and then broadcast as update_incident.
C19_PatchStaleRejected ==
  [][(Handled("PATCH") /\ last'.body.revision # NoRevision) =>
       IF last'.body.revision.count < currentRevision(srv, last'.id)
         THEN /\ last'.response.success = FALSE
              /\ last'.response.reason = "stale"
              /\ srv' = srv
              /\ toCl' = toCl
         ELSE (last'.id \in srv.list /\ last'.id \notin srv.deleted) =>
                /\ last'.response.success = TRUE
                /\ srv'.records[last'.id] = last'.body
                /\ toCl' = broadcast(toCl, srv.clients,
                                      [type |-> "update_incident", incident |-> last'.body])]_vars

\* C20 - DELETE /incident is idempotent: the first DELETE of a live id
\* unlists it, adds it to the tombstone set and broadcasts remove_incident; a
\* second DELETE of the id returns a success response, broadcasts nothing and
\* leaves the server state unchanged.
C20_DeleteIdempotent ==
  [][Handled("DELETE") =>
       /\ last'.id \in srv.list =>
            /\ last'.response.success = TRUE
            /\ srv'.list = srv.list \ {last'.id}
            /\ srv'.deleted = srv.deleted \cup {last'.id}
            /\ toCl' = broadcast(toCl, srv.clients,
                                  [type |-> "remove_incident", id |-> last'.id])
       /\ (last'.id \notin srv.list /\ last'.id \in srv.deleted) =>
            /\ last'.response.success = TRUE
            /\ srv' = srv
            /\ toCl' = toCl]_vars

\* C34 (no transfer of tombstoned incidents): in the mergeMap of a join
\* reconcile no id of resolved.deleted is in local.values or remote.values,
\* and the reconcile sends no add_incident or update_incident for such an id.
C34_NoTombstonedTransfer ==
  \A c \in Clients :
    (toCl[c] # <<>> /\ Head(toCl[c]).type = "server_share_info") =>
      \A res \in {mergeMap(LocalMap(cl[c]), Head(toCl[c]).incidents)} :
        /\ res.resolved.deleted \cap res.local.values = {}
        /\ res.resolved.deleted \cap res.remote.values = {}
        /\ \A f \in {ReconcileFrames(res, Head(toCl[c]).incidents)} :
             \A n \in DOMAIN f :
               f[n].type # "remove_incident" => f[n].incident.id \notin res.resolved.deleted

\* the incidents the server never held and one client added, edited and then
\* deleted without connection, once that client's reconcile is applied: it has
\* merged the server's snapshot and the server has read all its frames
ScenarioEDone(c, id) ==
  /\ id \notin DOMAIN StartValues
  /\ hasIncident(cl[c], id) /\ id \in cl[c].deleted
  /\ \E k \in Keys, v \in Vals : <<c, id, k, v>> \in hist.edits
  /\ cl[c].synced /\ toSrv[c] = <<>>

\* C32: Scenario E: an incident a client added, edited and deleted without
\* connection, which the server never held, is in the server's tombstones and
\* absent from its list once the client has reconnected and its reconcile is
\* applied
C32_ScenarioE ==
  \A c \in Clients, id \in Ids :
    ScenarioEDone(c, id) => id \in srv.deleted /\ id \notin srv.list

C32_Witness ==
  \E c \in Clients, id \in Ids :
    ScenarioEDone(c, id) /\ id \in srv.deleted /\ id \notin srv.list

\* ---- properties of the share connection (checked under SpecConn) ----
\* C22 (reconnect policy): a socket that closes because disconnect() was
\* called leaves no reconnect behind: no pending timer was set by the close
\* event of such a socket, and no socket was created by a connect call that
\* such a timer made.
C22_NoReconnectAfterDisconnect ==
  /\ \A t \in conn.timers : conn.socks[t].cause # "disconnect"
  /\ \A s \in Sockets :
       conn.socks[s].from # 0 => conn.socks[conn.socks[s].from].cause # "disconnect"

\* C23 (refused connection): once the server has refused a socket, the client
\* does not reconnect on its own: no timer is pending that the close event of
\* a refused socket set, and no socket was created by a connect call that
\* such a timer made.
C23_NoReconnectAfterRefusal ==
  /\ \A t \in conn.timers : ~conn.socks[t].refused
  /\ \A s \in Sockets :
       conn.socks[s].from # 0 => ~conn.socks[conn.socks[s].from].refused

\* C29 (open cancels the timer): whenever readyState is Open, no reconnect
\* timer is pending.
C29_OpenHasNoTimer ==
  conn.store.readyState = "Open" => conn.timers = {}

\* the edges of the cycle Closed -> Connecting -> Open -> Closing -> Closed
LifecycleEdges ==
  {<<"Closed", "Connecting">>, <<"Connecting", "Open">>,
   <<"Open", "Closing">>, <<"Closing", "Closed">>}

\* C30 (connection lifecycle): every change of readyState follows an edge of
\* the cycle Closed -> Connecting -> Open -> Closing -> Closed.
C30_Lifecycle ==
  [][conn.store.readyState' # conn.store.readyState
       => <<conn.store.readyState, conn.store.readyState'>> \in LifecycleEdges]_vars

\* C38 (one live socket): every socket that is connecting or open is the one
\* the store's websocket field refers to, so there is at most one.
C38_OneLiveSocket ==
  \A s \in Sockets :
    conn.socks[s].state \in {"connecting", "open"} => conn.store.websocket = s

\* C39 (stale close): the close event of a socket that a later connect has
\* replaced leaves the store and the newer socket as they are and sets no
\* reconnect timer for the older invitation.
C39_StaleCloseHarmless ==
  [][\A s \in Sockets :
       (/\ conn.socks[s].state # "closed"
        /\ conn'.socks[s].state = "closed"
        /\ conn.store.websocket > s)
       => /\ conn'.store = conn.store
          /\ conn'.socks[conn.store.websocket].state
               = conn.socks[conn.store.websocket].state
          /\ s \notin conn'.timers]_vars

\* C31 (offline path): a mutation made while the socket is not open, on a
\* device that holds the invitation of the event, goes out as an HTTP request.
C31_OfflinePath ==
  conn.op.offline => conn.op.path = "http"

\* ---- properties of the server's sessions and storage (SpecServer) ----
\* C21 (socket dedupe): this.clients holds at most one session per peer id,
\* and when the server_share_info snapshot is sent to a socket, no earlier
\* session of the same peer id is in the list.
C21_SocketDedupe ==
  /\ \A i, j \in DOMAIN sess.clients :
       i # j => sess.user[sess.clients[i]] # sess.user[sess.clients[j]]
  /\ \A s, e \in SessionIds :
       (e < s /\ sess.user[e] = sess.user[s]
          /\ ServerFrame(s, "server_share_info", "") \in sess.sent)
         => e \notin Listed(sess)

\* a peer id that had joined and been sent its snapshot has joined again, and
\* the snapshot is sent to its new socket, which is in the list
C21_Witness ==
  \E s, e \in SessionIds :
    /\ e < s /\ sess.user[e] = sess.user[s]
    /\ e \in sess.registered
    /\ ServerFrame(s, "server_share_info", "") \in sess.sent
    /\ s \in Listed(sess)

\* C26 (server tombstone invariant): no id is both in the server's incident
\* list and in its tombstone set.
C26_ServerTombstone ==
  srv.list \cap srv.deleted = {}

\* the mutation a frame stands for is in the storage st
Committed(st, f) ==
  IF f.type = "add_incident"
    THEN f.incident.id \in st.list /\ st.records[f.incident.id] = f.incident
  ELSE IF f.type = "update_incident"
    THEN f.incident.id \in DOMAIN st.records /\ st.records[f.incident.id] = f.incident
  ELSE f.id \notin st.list /\ f.id \in st.deleted

\* C27 (commit before fan-out): the frame the server has just broadcast
\* stands for a mutation that is in the server's storage.
C27_CommitBeforeFanOut ==
  last.kind = "fanout" => Committed(srv, last.frame)

\* C28 (broadcast failure handling): when a broadcast returns, every session
\* whose send threw is inactive and out of the list, and every session left
\* in the list has been sent a server_user_remove for it; removals cascade at
\* most one broadcast deep.
C28_BroadcastFailure ==
  [][/\ sess.depth' <= 1
     /\ \A t \in sess.tasks \ sess.tasks' :
          t.kind = "broadcast" =>
            \A l \in t.lefts :
              /\ l \in sess.inactive'
              /\ l \notin Listed(sess')
              /\ \A c \in Listed(sess') :
                   ServerFrame(c, "server_user_remove", sess.user[l])
                     \in sess.sent']_vars

\* C35 (revision monotonic): a PATCH request or an update_incident frame
\* never lowers the revision count the server stores for an incident.
C35_RevisionMonotonic ==
  [][(/\ ops' # ops
      /\ last'.kind = "fanout"
      /\ last'.frame.type = "update_incident")
     => \A id \in DOMAIN srv.records :
          currentRevision(srv', id) >= currentRevision(srv, id)]_vars

\* C36 (dropped sessions): a frame that arrives on the socket of a session
\* that is no longer in the session list leaves the storage as it is and is
\* sent to nobody.
C36_DroppedSessionIgnored ==
  [][\A s \in SessionIds \ Listed(sess), b \in SocketIncidents, type \in IncidentFrames :
       SocketFrame(s, type, b) => srv' = srv /\ sess'.sent = {}]_vars

Emits ==
  /\ loc'.emit.n # loc.emit.n
  /\ loc'.emit.op = "scratchpad" => loc'.emit.outcome = "ok"

EndsFailed ==
  /\ loc.run.op # "none" /\ loc'.run.op = "none"
  /\ loc'.emit.n = loc.run.n
  /\ loc'.emit.outcome \in {"nosocket", "failed"}

\* C25 (no rollback): when the emission of a mutation fails, the local store
\* holds the effect of the mutation once the mutation is over.
C25_NoRollback ==
  [][EndsFailed => Applied(loc'.store, loc'.pads, loc'.emit)]_vars

\* an edit whose request failed is over and the edited record is stored
C25_Witness ==
  /\ loc.run.op = "none"
  /\ loc.emit.op = "edit" /\ loc.emit.outcome = "failed"
  /\ Applied(loc.store, loc.pads, loc.emit)

\* ---- properties of the client's message handler (checked under SpecRecv) ----
\* a suspended call that has a write of the incident store ahead of it
StoreStepsLeft(h) == h.pc # "scratchpads"

\* C33 (frames one at a time): whenever the call for a frame changes the
\* local store, no call for an earlier frame of the socket is still on its
\* way to a write of the store: the effects of frame n are complete before
\* those of frame n+1 begin.
C33_FramesOneAtATime ==
  [][rx'.store # rx.store =>
       \A g \in rx.running \ rx'.running :
         \A h \in rx.running : h.n < g.n => ~StoreStepsLeft(h)]_vars

====
